---- MODULE Spec2Model ----
(***************************************************************************)
(* Model of github.com/teamwork/validate (src/validate.go): the Validator  *)
(* error aggregate (Append, HasErrors, ErrorOrNil, Sub, Merge, String) and *)
(* the check functions that record messages in it.                         *)
(*                                                                         *)
(* A Go string is a sequence of characters, each a one-character TLA+      *)
(* string; the runes U+2018 and U+2019 of the default messages are the     *)
(* tokens "U+2018" and "U+2019".                                           *)
(***************************************************************************)
EXTENDS Integers, Sequences, FiniteSets, TLC

VARIABLES vs, last, checks, threads

vars == <<vs, last, checks, threads>>

(***************************************************************************)
(* Bounds of the model.                                                    *)
(***************************************************************************)
\* Messages held by all aggregates together in Spec.
MaxMsgs == 2

\* Messages held by all aggregates together in SpecMerge, SpecSub and
\* SpecChecks.
MaxAggMsgs == 4

\* Characters of a field key.
MaxKeyLen == 8

\* Check-function calls in one run.
MaxChecks == 1

(***************************************************************************)
(* Strings.                                                                *)
(***************************************************************************)
Digits == <<"0", "1", "2", "3", "4", "5", "6", "7", "8", "9">>

DigitChars == {Digits[i] : i \in 1..10}

RECURSIVE NatDigits(_)
NatDigits(n) ==
    IF n < 10 THEN <<Digits[n + 1]>>
    ELSE NatDigits(n \div 10) \o <<Digits[(n % 10) + 1]>>

FormatInt(n) == IF n < 0 THEN <<"-">> \o NatDigits(0 - n) ELSE NatDigits(n)

RECURSIVE Join(_, _)
Join(ss, sep) ==
    IF ss = <<>> THEN <<>>
    ELSE IF Len(ss) = 1 THEN ss[1]
    ELSE ss[1] \o sep \o Join(Tail(ss), sep)

(***************************************************************************)
(* fmt.Sprintf.  An operand is a string, an int or an error; the verbs the *)
(* package uses are %s and %d.  After '%' come flags, a width and a        *)
(* precision, then the verb; "%%" is a literal '%', a verb without operand *)
(* prints %!v(MISSING), a '%' at the end of the format prints %!(NOVERB),  *)
(* and operands left over print %!(EXTRA type=value).                      *)
(***************************************************************************)
StrArg(s) == [t |-> "string", s |-> s]

IntArg(n) == [t |-> "int", n |-> n]

ErrArg(s) == [t |-> "error", s |-> s]

\* A float64 that holds a whole number; each %f of the messages is %.1f, which
\* prints it with one decimal.
FloatArg(n) == [t |-> "float64", n |-> n]

FmtFlags == {"#", "0", "+", "-", " "}

RECURSIVE SkipWhile(_, _, _)
SkipWhile(f, i, set) ==
    IF i <= Len(f) /\ f[i] \in set THEN SkipWhile(f, i + 1, set) ELSE i

VerbPos(f, i) ==
    LET a == SkipWhile(f, i, FmtFlags)
        b == SkipWhile(f, a, DigitChars)
    IN  IF b <= Len(f) /\ f[b] = "." THEN SkipWhile(f, b + 1, DigitChars) ELSE b

ArgType(a) ==
    CASE a.t = "string" -> <<"s", "t", "r", "i", "n", "g">>
      [] a.t = "int" -> <<"i", "n", "t">>
      [] OTHER -> <<"*", "e", "r", "r", "o", "r", "s", ".", "e", "r", "r", "o", "r", "S", "t", "r", "i", "n", "g">>

ArgText(a) == IF a.t = "int" THEN FormatInt(a.n) ELSE a.s

BadVerb(verb, a) ==
    <<"%", "!", verb, "(">> \o ArgType(a) \o <<"=">> \o ArgText(a) \o <<")">>

FormatArg(verb, a) ==
    CASE a.t = "int" /\ verb \in {"d", "v"} -> FormatInt(a.n)
      [] a.t \in {"string", "error"} /\ verb \in {"s", "v"} -> a.s
      [] a.t = "float64" /\ verb = "f" -> FormatInt(a.n) \o <<".", "0">>
      [] OTHER -> BadVerb(verb, a)

RECURSIVE ExtraArgs(_, _)
ExtraArgs(args, n) ==
    ArgType(args[n]) \o <<"=">> \o ArgText(args[n])
        \o (IF n < Len(args) THEN <<",", " ">> \o ExtraArgs(args, n + 1) ELSE <<>>)

Extra(args, n) ==
    IF n <= Len(args)
    THEN <<"%", "!", "(", "E", "X", "T", "R", "A", " ">> \o ExtraArgs(args, n) \o <<")">>
    ELSE <<>>

\* The position of the next "%" from i on, or one past the end: doPrintf
\* writes the text before it as it stands.
NextPercent(f, i) ==
    LET at == {j \in i..Len(f) : f[j] = "%"}
    IN  IF at = {} THEN Len(f) + 1 ELSE CHOOSE j \in at : \A k \in at : j <= k

RECURSIVE doPrintf(_, _, _, _)
doPrintf(f, i, args, n) ==
    IF i > Len(f) THEN Extra(args, n)
    ELSE IF f[i] # "%"
    THEN SubSeq(f, i, NextPercent(f, i) - 1) \o doPrintf(f, NextPercent(f, i), args, n)
    ELSE LET j == VerbPos(f, i + 1) IN
         IF j > Len(f)
         THEN <<"%", "!", "(", "N", "O", "V", "E", "R", "B", ")">> \o Extra(args, n)
         ELSE IF f[j] = "%" THEN <<"%">> \o doPrintf(f, j + 1, args, n)
         ELSE IF n > Len(args)
         THEN <<"%", "!", f[j], "(", "M", "I", "S", "S", "I", "N", "G", ")">>
                  \o doPrintf(f, j + 1, args, n)
         ELSE FormatArg(f[j], args[n]) \o doPrintf(f, j + 1, args, n + 1)

Sprintf(f, args) == doPrintf(f, 1, args, 1)

(***************************************************************************)
(* Go maps: a function from the keys present to their values.  Reading an  *)
(* absent key of a map[string][]string gives the nil slice.                *)
(***************************************************************************)
EmptyMap == <<>>

\* A map read that finds no entry.
GetNothing(m, k) == <<>>

Get(m, k) == IF k \in DOMAIN m THEN m[k] ELSE <<>>

\* A map write that drops every other key.
PutAlone(m, k, val) == [x \in {k} |-> val]

Put(m, k, val) == [x \in (DOMAIN m) \cup {k} |-> IF x = k THEN val ELSE m[x]]

RECURSIVE Orders(_)
Orders(S) ==
    IF S = {} THEN {<<>>}
    ELSE UNION {{<<x>> \o o : o \in Orders(S \ {x})} : x \in S}

(***************************************************************************)
(* The Validator: its Errors map, which is nil in the zero value           *)
(* Validator{} and made by New().                                          *)
(***************************************************************************)
New == [Errors |-> EmptyMap, nilMap |-> FALSE]

ZeroValidator == [Errors |-> EmptyMap, nilMap |-> TRUE]

\* The outcome of a call: the receiver afterwards, the value returned, and
\* whether the call panicked.
NoRet == [t |-> "none"]

Ok(v, ret) == [v |-> v, ret |-> ret, panic |-> FALSE]

Panic(v) == [v |-> v, ret |-> NoRet, panic |-> TRUE]

\* A faulty AppendAll: the key is written, the messages are dropped.
AppendAllKeyOnly(v, key, msgs) ==
    IF v.nilMap THEN Panic(v)
    ELSE Ok([v EXCEPT !.Errors = Put(v.Errors, key, Get(v.Errors, key))], NoRet)

\* An append that puts the new messages before the ones already there.
AppendAllFront(v, key, msgs) ==
    IF v.nilMap THEN Panic(v)
    ELSE Ok([v EXCEPT !.Errors = Put(v.Errors, key, msgs \o Get(v.Errors, key))], NoRet)

\* v.Errors[key] = append(v.Errors[key], msgs...); writing a nil map panics.
AppendAll(v, key, msgs) ==
    IF v.nilMap THEN Panic(v)
    ELSE Ok([v EXCEPT !.Errors = Put(v.Errors, key, Get(v.Errors, key) \o msgs)], NoRet)

\* A faulty Append: the message replaces the list under the key.
ValidatorAppendReplaces(v, key, value, format) ==
    IF v.nilMap THEN Panic(v)
    ELSE Ok([v EXCEPT !.Errors = Put(v.Errors, key, <<Sprintf(value, format)>>)], NoRet)

ValidatorAppend(v, key, value, format) == AppendAll(v, key, <<Sprintf(value, format)>>)

\* A faulty HasErrors: one key does not count.
HasErrorsTwo(v) == Cardinality(DOMAIN v.Errors) > 1

HasErrors(v) == Cardinality(DOMAIN v.Errors) > 0

\* func (v *Validator) ErrorOrNil() error: the receiver p itself, or nil.
NilErr == [t |-> "nil"]

PtrErr(p) == [t |-> "ptr", ref |-> p]

ValErr(v) == [t |-> "val", v |-> v]

PlainErr(s) == [t |-> "error", s |-> s]

ErrorOrNil(p, mem) == IF HasErrors(mem[p]) THEN Ok(mem[p], PtrErr(p)) ELSE Ok(mem[p], NilErr)

\* A faulty loop of Sub: the first list goes under the prefix key itself.
SubEachFlat(v, key, sub, order) ==
    IF order = <<>> THEN Ok(v, NoRet)
    ELSE AppendAll(v, key, sub.Errors[Head(order)])

\* for k, val := range sub.Errors { mk := key + "." + k; v.Errors[mk] = append(...) }
\* in the order the map iteration takes.
RECURSIVE SubEach(_, _, _, _)
SubEach(v, key, sub, order) ==
    IF order = <<>> THEN Ok(v, NoRet)
    ELSE LET k == Head(order)
             mk == Sprintf(<<"%", "s", ".", "%", "s">>, <<StrArg(key), StrArg(k)>>)
             r == AppendAll(v, mk, sub.Errors[k])
         IN  IF r.panic THEN r ELSE SubEach(r.v, key, sub, Tail(order))

\* A faulty Sub: the prefix key is written whatever err is.
SubPrefixAlways(v, key, subKey, err, mem, order) ==
    IF err.t = "nil" THEN AppendAll(v, key, <<>>)
    ELSE IF err.t = "error" THEN ValidatorAppend(v, key, err.s, <<>>)
    ELSE IF err.t = "ptr" /\ err.ref = 0 THEN Panic(v)
    ELSE AppendAll(v, key, <<>>)

\* err is nil, a *Validator (ref 0: a nil pointer), a Validator value, or
\* another error; mem resolves the pointer.
Sub(v, key, subKey, err, mem, order) ==
    IF err.t = "nil" THEN Ok(v, NoRet)
    ELSE LET k2 == IF subKey # <<>>
                   THEN Sprintf(<<"%", "s", "[", "%", "s", "]">>, <<StrArg(key), StrArg(subKey)>>)
                   ELSE key
         IN  IF err.t = "error" THEN ValidatorAppend(v, k2, err.s, <<>>)
             ELSE IF err.t = "ptr" /\ err.ref = 0 THEN Panic(v)
             ELSE LET sub == IF err.t = "ptr" THEN mem[err.ref] ELSE err.v
                  IN  IF ~HasErrors(sub) THEN Ok(v, NoRet)
                      ELSE SubEach(v, k2, sub, order)

\* The aggregate err refers to, for the map iteration of Sub.
SubOf(err, mem) ==
    IF err.t = "ptr" /\ err.ref # 0 THEN mem[err.ref]
    ELSE IF err.t = "val" THEN err.v
    ELSE New

\* A faulty Merge: other's list replaces the receiver's.
MergeOverwrites(v, other, order) ==
    IF order = <<>> THEN Ok(v, NoRet)
    ELSE IF v.nilMap THEN Panic(v)
    ELSE Ok([v EXCEPT !.Errors = [k \in DOMAIN v.Errors \cup DOMAIN other.Errors |->
                                      IF k \in DOMAIN other.Errors THEN other.Errors[k]
                                      ELSE v.Errors[k]]], NoRet)

\* for k, val := range other.Errors { v.Errors[k] = append(v.Errors[k], val...) }
RECURSIVE Merge(_, _, _)
Merge(v, other, order) ==
    IF order = <<>> THEN Ok(v, NoRet)
    ELSE LET k == Head(order)
             r == AppendAll(v, k, other.Errors[k])
         IN  IF r.panic THEN r ELSE Merge(r.v, other, Tail(order))

\* sort.Strings: ascending byte order.
Ord(c) ==
    CASE c = "." -> 46
      [] c = "1" -> 49
      [] c = "[" -> 91
      [] c = "]" -> 93
      [] c = "a" -> 97
      [] c = "b" -> 98

RECURSIVE LessAt(_, _, _)
LessAt(a, b, i) ==
    IF i > Len(a) THEN i <= Len(b)
    ELSE IF i > Len(b) THEN FALSE
    ELSE IF a[i] = b[i] THEN LessAt(a, b, i + 1)
    ELSE Ord(a[i]) < Ord(b[i])

StrLess(a, b) == LessAt(a, b, 1)

RECURSIVE Insert(_, _)
Insert(sorted, x) ==
    IF sorted = <<>> THEN <<x>>
    ELSE IF StrLess(x, Head(sorted)) THEN <<x>> \o sorted
    ELSE <<Head(sorted)>> \o Insert(Tail(sorted), x)

\* A faulty sort.Strings: the keys stay in map order.
SortStringsNot(keys) == keys

RECURSIVE SortStrings(_)
SortStrings(keys) ==
    IF keys = <<>> THEN <<>> ELSE Insert(SortStrings(Tail(keys)), Head(keys))

RECURSIVE WriteLines(_, _)
WriteLines(v, keys) ==
    IF keys = <<>> THEN <<>>
    ELSE Sprintf(<<"%", "s", ":", " ", "%", "s", ".", "\n">>, <<StrArg(Head(keys)), StrArg(Join(v.Errors[Head(keys)], <<",", " ">>))>>)
             \o WriteLines(v, Tail(keys))

\* order: the order in which the map iteration fills keys before the sort.
String(v, order) ==
    IF ~HasErrors(v) THEN Ok(v, StrArg(<<"<", "n", "o", " ", "e", "r", "r", "o", "r", "s", ">">>))
    ELSE Ok(v, StrArg(WriteLines(v, SortStrings(order))))

(***************************************************************************)
(* The default messages.                                                   *)
(***************************************************************************)
MessageRequired ==
    <<"m", "u", "s", "t", " ", "b", "e", " ", "s", "e", "t">>

MessageDomain ==
    <<"m", "u", "s", "t", " ", "b", "e", " ", "a", " ", "v", "a", "l", "i", "d", " ", "d", "o", "m", "a", "i", "n">>

MessageURL ==
    <<"m", "u", "s", "t", " ", "b", "e", " ", "a", " ", "v", "a", "l", "i", "d", " ", "u", "r", "l">>

MessageEmail ==
    <<"m", "u", "s", "t", " ", "b", "e", " ", "a", " ", "v", "a", "l", "i", "d", " ", "e", "m", "a", "i", "l", " ", "a", "d", "d", "r", "e", "s", "s">>

MessageIPv4 ==
    <<"m", "u", "s", "t", " ", "b", "e", " ", "a", " ", "v", "a", "l", "i", "d", " ", "I", "P", "v", "4", " ", "a", "d", "d", "r", "e", "s", "s">>

MessageHexColor ==
    <<"m", "u", "s", "t", " ", "b", "e", " ", "a", " ", "v", "a", "l", "i", "d", " ", "c", "o", "l", "o", "r", " ", "c", "o", "d", "e">>

MessageLenLonger ==
    <<"m", "u", "s", "t", " ", "b", "e", " ", "l", "o", "n", "g", "e", "r", " ", "t", "h", "a", "n", " ", "%", "d", " ", "c", "h", "a", "r", "a", "c", "t", "e", "r", "s">>

MessageLenShorter ==
    <<"m", "u", "s", "t", " ", "b", "e", " ", "s", "h", "o", "r", "t", "e", "r", " ", "t", "h", "a", "n", " ", "%", "d", " ", "c", "h", "a", "r", "a", "c", "t", "e", "r", "s">>

MessageExclude ==
    <<"c", "a", "n", "n", "o", "t", " ", "b", "e", " ", "U+2018", "%", "s", "U+2019">>

MessageInclude ==
    <<"m", "u", "s", "t", " ", "b", "e", " ", "o", "n", "e", " ", "o", "f", " ", "U+2018", "%", "s", "U+2019">>

MessageInteger ==
    <<"m", "u", "s", "t", " ", "b", "e", " ", "a", " ", "w", "h", "o", "l", "e", " ", "n", "u", "m", "b", "e", "r">>

MessageBool ==
    <<"m", "u", "s", "t", " ", "b", "e", " ", "a", " ", "b", "o", "o", "l", "e", "a", "n">>

MessageDate ==
    <<"m", "u", "s", "t", " ", "b", "e", " ", "a", " ", "d", "a", "t", "e", " ", "a", "s", " ", "U+2018", "%", "s", "U+2019">>

MessagePhone ==
    <<"m", "u", "s", "t", " ", "b", "e", " ", "a", " ", "v", "a", "l", "i", "d", " ", "p", "h", "o", "n", "e", " ", "n", "u", "m", "b", "e", "r">>

MessageRangeHigher ==
    <<"m", "u", "s", "t", " ", "b", "e", " ", "%", "d", " ", "o", "r", " ", "h", "i", "g", "h", "e", "r">>

MessageRangeLower ==
    <<"m", "u", "s", "t", " ", "b", "e", " ", "%", "d", " ", "o", "r", " ", "l", "o", "w", "e", "r">>

\* getMessage panics on more than one message; otherwise the override or def.
TooManyMessages(in) == Len(in) > 1

getMessage(in, def) == IF Len(in) = 0 THEN def ELSE in[1]

(***************************************************************************)
(* strings.ToLower, strings.TrimSpace, strings.EqualFold on the letters    *)
(* and white space of the inputs.                                          *)
(***************************************************************************)
LowerLetters ==
    <<"a", "b", "c", "d", "e", "f", "g", "h", "i", "j", "k", "l", "m",
      "n", "o", "p", "q", "r", "s", "t", "u", "v", "w", "x", "y", "z">>

UpperLetters ==
    <<"A", "B", "C", "D", "E", "F", "G", "H", "I", "J", "K", "L", "M",
      "N", "O", "P", "Q", "R", "S", "T", "U", "V", "W", "X", "Y", "Z">>

\* Letters of other scripts that the inputs use (each one rune, two or more bytes).
OtherLetters == {"U+00E9", "U+0E23"}

IsUpper(c) == \E i \in 1..26 : UpperLetters[i] = c

IsLetter(c) == (\E i \in 1..26 : LowerLetters[i] = c) \/ IsUpper(c) \/ c \in OtherLetters

IsDigit(c) == c \in DigitChars

LowerChar(c) ==
    IF IsUpper(c) THEN LowerLetters[CHOOSE i \in 1..26 : UpperLetters[i] = c] ELSE c

ToLower(s) == [i \in 1..Len(s) |-> LowerChar(s[i])]

IsSpace(c) == c \in {" ", "\t", "\n", "\r"}

RECURSIVE TrimLeft(_)
TrimLeft(s) == IF s # <<>> /\ IsSpace(Head(s)) THEN TrimLeft(Tail(s)) ELSE s

RECURSIVE TrimRight(_)
TrimRight(s) ==
    IF s # <<>> /\ IsSpace(s[Len(s)]) THEN TrimRight(SubSeq(s, 1, Len(s) - 1)) ELSE s

\* A faulty strings.TrimSpace: nothing is trimmed.
TrimSpaceNot(s) == s

TrimSpace(s) == TrimRight(TrimLeft(s))

EqualFold(a, b) == ToLower(a) = ToLower(b)

\* The length in bytes of the UTF-8 encoding: two bytes for U+00E9, three
\* for U+2018 and U+2019, one for an ASCII character.
LenInBytes(s) ==
    Len(s) + Cardinality({i \in 1..Len(s) : s[i] = "U+00E9"})
           + 2 * Cardinality({i \in 1..Len(s) : s[i] \in {"U+2018", "U+2019"}})

\* utf8.RuneCountInString: every element of the sequence is one rune.
RuneCountInString(s) == Len(s)

(***************************************************************************)
(* The check functions.  message is the variadic override: a sequence of   *)
(* strings.                                                                *)
(***************************************************************************)
RECURSIVE AllZero(_)
AllZero(zero) == zero = <<>> \/ (Head(zero) /\ AllZero(Tail(zero)))

\* Required that treats every value it does not know as a missing one.
RequiredRecordsUnknown(v, key, value, message) ==
    ValidatorAppend(v, key, getMessage(message, MessageRequired), <<>>)

\* value is the interface{} argument, tagged with its dynamic type; a slice
\* of another element type carries, per element, whether it is the zero value.
Required(v, key, value, message) ==
    IF TooManyMessages(message) THEN Panic(v)
    ELSE LET msg == getMessage(message, MessageRequired)
             fail == ValidatorAppend(v, key, msg, <<>>)
             pass == Ok(v, NoRet)
         IN  CASE value.t = "string" ->
                    IF TrimSpace(value.s) = <<>> THEN fail ELSE pass
               [] value.t = "*string" ->
                    IF value.isNil \/ TrimSpace(value.s) = <<>> THEN fail ELSE pass
               [] value.t \in {"int", "int64", "uint", "uint64"} ->
                    IF value.n = 0 THEN fail ELSE pass
               [] value.t = "bool" -> IF ~value.b THEN fail ELSE pass
               [] value.t = "Address" -> IF value.s = <<>> THEN fail ELSE pass
               [] value.t = "List" -> IF value.len = 0 THEN fail ELSE pass
               [] value.t = "[]int64" -> IF Len(value.zero) = 0 THEN fail ELSE pass
               [] value.t = "ptr" -> IF value.isNil THEN fail ELSE pass
               [] value.t = "slice" ->
                    IF Len(value.zero) = 0 THEN fail
                    ELSE IF ~AllZero(value.zero) THEN pass
                    ELSE fail
               [] OTHER -> Panic(v)

\* The first index of list whose element satisfies Match, 0 if none.
RECURSIVE IndexInt(_, _, _)
IndexInt(list, value, i) ==
    IF i > Len(list) THEN 0
    ELSE IF list[i] = value THEN i
    ELSE IndexInt(list, value, i + 1)

ExcludeInt64(v, key, value, exclude, message) ==
    IF TooManyMessages(message) THEN Panic(v)
    ELSE LET msg == getMessage(message, <<>>)
             i == IndexInt(exclude, value, 1)
         IN  IF i = 0 THEN Ok(v, NoRet)
             ELSE IF msg # <<>> THEN ValidatorAppend(v, key, msg, <<>>)
             ELSE ValidatorAppend(v, key,
                      Sprintf(MessageExclude, <<StrArg(FormatInt(exclude[i]))>>), <<>>)

IncludeInt64(v, key, value, include, message) ==
    IF Len(include) = 0 THEN Ok(v, NoRet)
    ELSE IF IndexInt(include, value, 1) # 0 THEN Ok(v, NoRet)
    ELSE IF TooManyMessages(message) THEN Panic(v)
    ELSE LET msg == getMessage(message, <<>>)
             intStr == [i \in 1..Len(include) |-> FormatInt(include[i])]
         IN  IF msg # <<>> THEN ValidatorAppend(v, key, msg, <<>>)
             ELSE ValidatorAppend(v, key,
                      Sprintf(MessageInclude, <<StrArg(Join(intStr, <<",", " ">>))>>), <<>>)

RECURSIVE IndexLower(_, _, _)
IndexLower(list, value, i) ==
    IF i > Len(list) THEN 0
    ELSE IF ToLower(list[i]) = value THEN i
    ELSE IndexLower(list, value, i + 1)

Exclude(v, key, value, exclude, message) ==
    IF TooManyMessages(message) THEN Panic(v)
    ELSE LET msg == getMessage(message, <<>>)
             val == TrimSpace(ToLower(value))
             i == IndexLower(exclude, val, 1)
         IN  IF i = 0 THEN Ok(v, NoRet)
             ELSE IF msg # <<>> THEN ValidatorAppend(v, key, msg, <<>>)
             ELSE ValidatorAppend(v, key,
                      Sprintf(MessageExclude, <<StrArg(exclude[i])>>), <<>>)

Include(v, key, value, include, message) ==
    IF Len(include) = 0 THEN Ok(v, NoRet)
    ELSE LET val == TrimSpace(ToLower(value)) IN
         IF \E i \in 1..Len(include) : EqualFold(include[i], val) THEN Ok(v, NoRet)
         ELSE IF TooManyMessages(message) THEN Panic(v)
         ELSE LET msg == getMessage(message, <<>>) IN
              IF msg # <<>> THEN ValidatorAppend(v, key, msg, <<>>)
              ELSE ValidatorAppend(v, key,
                       Sprintf(MessageInclude, <<StrArg(Join(include, <<",", " ">>))>>), <<>>)

\* strings.Split(s, sep) for a one-character separator.
RECURSIVE Split(_, _)
Split(s, sep) ==
    IF \A i \in 1..Len(s) : s[i] # sep THEN <<s>>
    ELSE LET i == CHOOSE j \in 1..Len(s) : s[j] = sep /\ \A k \in 1..(j - 1) : s[k] # sep
         IN  <<SubSeq(s, 1, i - 1)>> \o Split(SubSeq(s, i + 1, Len(s)), sep)

\* reValidDomain: ^[\p{L}\d-]{1,63}(\.[\p{L}\d-]{1,63})+$
LabelMax == 63

IsLabelChar(c) == IsLetter(c) \/ IsDigit(c) \/ c = "-"

IsLabel(l) == Len(l) >= 1 /\ Len(l) <= LabelMax /\ \A i \in 1..Len(l) : IsLabelChar(l[i])

\* A domain check that accepts a name of one label.
validDomainOneLabel(value) ==
    \A i \in 1..Len(Split(value, ".")) : IsLabel(Split(value, ".")[i])

validDomain(value) ==
    LET labels == Split(value, ".")
    IN  Len(labels) >= 2 /\ \A i \in 1..Len(labels) : IsLabel(labels[i])

Domain(v, key, value, message) ==
    IF value = <<>> THEN Ok(v, NoRet)
    ELSE IF TooManyMessages(message) THEN Panic(v)
    ELSE LET msg == getMessage(message, MessageDomain) IN
         IF ~validDomain(value) THEN ValidatorAppend(v, key, msg, <<>>) ELSE Ok(v, NoRet)

\* reValidHexColor: (?i)^#[0-9a-f]{3,6}$
HexMin == 3

HexMax == 6

IsHex(c) == IsDigit(c) \/ LowerChar(c) \in {"a", "b", "c", "d", "e", "f"}

validHexColor(value) ==
    /\ Len(value) >= 1 + HexMin
    /\ Len(value) <= 1 + HexMax
    /\ value[1] = "#"
    /\ \A i \in 2..Len(value) : IsHex(value[i])

HexColor(v, key, value, message) ==
    IF value = <<>> THEN Ok(v, NoRet)
    ELSE IF TooManyMessages(message) THEN Panic(v)
    ELSE LET msg == getMessage(message, MessageHexColor) IN
         IF ~validHexColor(value) THEN ValidatorAppend(v, key, msg, <<>>) ELSE Ok(v, NoRet)

\* func (v *Validator) Len: a switch, so at most one case runs.
ValidatorLen(v, key, value, min, max, message) ==
    IF TooManyMessages(message) THEN Panic(v)
    ELSE LET msg == getMessage(message, <<>>)
             length == RuneCountInString(value)
         IN  IF length < min
             THEN IF msg # <<>> THEN ValidatorAppend(v, key, msg, <<>>)
                  ELSE ValidatorAppend(v, key, Sprintf(MessageLenLonger, <<IntArg(min)>>), <<>>)
             ELSE IF max > 0 /\ length > max
             THEN IF msg # <<>> THEN ValidatorAppend(v, key, msg, <<>>)
                  ELSE ValidatorAppend(v, key, Sprintf(MessageLenShorter, <<IntArg(max)>>), <<>>)
             ELSE Ok(v, NoRet)

\* strconv.ParseInt(s, 10, 64): an optional sign and one or more digits.
RECURSIVE NatValue(_)
NatValue(ds) ==
    IF ds = <<>> THEN 0
    ELSE 10 * NatValue(SubSeq(ds, 1, Len(ds) - 1))
             + (CHOOSE d \in 0..9 : Digits[d + 1] = ds[Len(ds)])

\* The digits of 1<<63 - 1, the largest int64, and of 1<<63.
MaxInt64Digits ==
    <<"9", "2", "2", "3", "3", "7", "2", "0", "3", "6", "8", "5", "4", "7", "7", "5", "8", "0", "7">>

MinInt64Digits ==
    <<"9", "2", "2", "3", "3", "7", "2", "0", "3", "6", "8", "5", "4", "7", "7", "5", "8", "0", "8">>

RECURSIVE StripZeros(_)
StripZeros(ds) ==
    IF Len(ds) > 1 /\ Head(ds) = "0" THEN StripZeros(Tail(ds)) ELSE ds

\* The number written by ds is above the number written by limit; neither
\* has leading zeros.
DigitsAbove(ds, limit) ==
    \/ Len(ds) > Len(limit)
    \/ /\ Len(ds) = Len(limit)
       /\ \E i \in 1..Len(ds) :
              /\ SubSeq(ds, 1, i - 1) = SubSeq(limit, 1, i - 1)
              /\ NatValue(<<ds[i]>>) > NatValue(<<limit[i]>>)

\* A number beyond the int64 range is an error whose value is the nearest
\* int64: limit names it, "max" for 1<<63 - 1 and "min" for -1<<63.
ParseInt(s) ==
    LET signed == s # <<>> /\ s[1] \in {"+", "-"}
        neg == signed /\ s[1] = "-"
        ds == IF signed THEN Tail(s) ELSE s
    IN  IF ds = <<>> \/ \E i \in 1..Len(ds) : ~IsDigit(ds[i])
        THEN [err |-> TRUE, n |-> 0, limit |-> ""]
        ELSE IF DigitsAbove(StripZeros(ds), IF neg THEN MinInt64Digits ELSE MaxInt64Digits)
        THEN [err |-> TRUE, n |-> 0, limit |-> IF neg THEN "min" ELSE "max"]
        ELSE [err |-> FALSE, n |-> IF neg THEN 0 - NatValue(ds) ELSE NatValue(ds),
              limit |-> ""]

\* The int64 Integer returns: a number, or one of the two ends of the int64
\* range, which are named and not written out.
Int64Ret(r) == IF r.limit = "" THEN IntArg(r.n) ELSE [t |-> "int", limit |-> r.limit]

Integer(v, key, value, message) ==
    IF value = <<>> THEN Ok(v, IntArg(0))
    ELSE LET r == ParseInt(TrimSpace(value)) IN
         IF r.err
         THEN IF TooManyMessages(message) THEN Panic(v)
              ELSE LET a == ValidatorAppend(v, key, getMessage(message, MessageInteger), <<>>)
                   IN  IF a.panic THEN a ELSE Ok(a.v, Int64Ret(r))
         ELSE Ok(v, Int64Ret(r))

BoolRet(b) == [t |-> "bool", b |-> b]

Truthy == {<<"1">>, <<"y">>, <<"y", "e", "s">>, <<"t">>, <<"t", "r", "u", "e">>}

Falsy == {<<"0">>, <<"n">>, <<"n", "o">>, <<"f">>, <<"f", "a", "l", "s", "e">>}

Boolean(v, key, value, message) ==
    IF value = <<>> THEN Ok(v, BoolRet(FALSE))
    ELSE IF ToLower(value) \in Truthy THEN Ok(v, BoolRet(TRUE))
    ELSE IF ToLower(value) \in Falsy THEN Ok(v, BoolRet(FALSE))
    ELSE IF TooManyMessages(message) THEN Panic(v)
    ELSE LET a == ValidatorAppend(v, key, getMessage(message, MessageBool), <<>>)
         IN  IF a.panic THEN a ELSE Ok(a.v, BoolRet(FALSE))

\* rePhone: ^[0123456789+\-() .]{5,20}$
PhoneMin == 5

PhoneMax == 20

IsPhoneChar(c) == IsDigit(c) \/ c \in {"+", "-", "(", ")", " ", "."}

validPhone(value) ==
    /\ Len(value) >= PhoneMin
    /\ Len(value) <= PhoneMax
    /\ \A i \in 1..Len(value) : IsPhoneChar(value[i])

Phone(v, key, value, message) ==
    IF value = <<>> THEN Ok(v, NoRet)
    ELSE IF TooManyMessages(message) THEN Panic(v)
    ELSE LET msg == getMessage(message, MessagePhone) IN
         IF ~validPhone(value) THEN ValidatorAppend(v, key, msg, <<>>) ELSE Ok(v, NoRet)

\* func (v *Validator) Range: two independent if statements.
Range(v, key, value, min, max, message) ==
    IF TooManyMessages(message) THEN Panic(v)
    ELSE LET msg == getMessage(message, <<>>)
             low == IF value < min
                    THEN IF msg # <<>> THEN ValidatorAppend(v, key, msg, <<>>)
                         ELSE ValidatorAppend(v, key,
                                  Sprintf(MessageRangeHigher, <<IntArg(min)>>), <<>>)
                    ELSE Ok(v, NoRet)
         IN  IF low.panic THEN low
             ELSE IF max > 0 /\ value > max
             THEN IF msg # <<>> THEN ValidatorAppend(low.v, key, msg, <<>>)
                  ELSE ValidatorAppend(low.v, key,
                           Sprintf(MessageRangeLower, <<IntArg(max)>>), <<>>)
             ELSE low

HasPrefix(s, pre) == Len(s) >= Len(pre) /\ SubSeq(s, 1, Len(pre)) = pre

Drop(s, n) == SubSeq(s, n + 1, Len(s))

Contains(s, c) == \E i \in 1..Len(s) : s[i] = c

AllDigits(s) == \A i \in 1..Len(s) : IsDigit(s[i])

\* time.Parse for layouts made of the elements 2006 (year), 01 (month) and 02
\* (day) and of literal characters: every element must match and no text of
\* the value may be left over.
MonthMax == 12

DayMax == 31

RECURSIVE timeParse(_, _)
timeParse(layout, value) ==
    IF layout = <<>> THEN value = <<>>
    ELSE IF HasPrefix(layout, <<"2", "0", "0", "6">>)
    THEN /\ Len(value) >= 4
         /\ AllDigits(SubSeq(value, 1, 4))
         /\ timeParse(Drop(layout, 4), Drop(value, 4))
    ELSE IF HasPrefix(layout, <<"0", "1">>)
    THEN /\ Len(value) >= 2
         /\ AllDigits(SubSeq(value, 1, 2))
         /\ NatValue(SubSeq(value, 1, 2)) \in 1..MonthMax
         /\ timeParse(Drop(layout, 2), Drop(value, 2))
    ELSE IF HasPrefix(layout, <<"0", "2">>)
    THEN /\ Len(value) >= 2
         /\ AllDigits(SubSeq(value, 1, 2))
         /\ NatValue(SubSeq(value, 1, 2)) \in 1..DayMax
         /\ timeParse(Drop(layout, 2), Drop(value, 2))
    ELSE /\ value # <<>>
         /\ Head(value) = Head(layout)
         /\ timeParse(Tail(layout), Tail(value))

\* func (v *Validator) Date: no test of value == "" before the parse.
Date(v, key, value, layout, message) ==
    IF TooManyMessages(message) THEN Panic(v)
    ELSE LET msg == getMessage(message, <<>>) IN
         IF ~timeParse(layout, value)
         THEN IF msg # <<>> THEN ValidatorAppend(v, key, msg, <<>>)
              ELSE ValidatorAppend(v, key, Sprintf(MessageDate, <<StrArg(layout)>>), <<>>)
         ELSE Ok(v, NoRet)

\* net.ParseIP: "v4" for a dotted quad, "v6" for an IPv6 literal (here: only
\* hexadecimal digits and at least two colons), "nil" when it does not parse.
ByteMax == 255

IsOctet(f) ==
    /\ Len(f) \in 1..3
    /\ AllDigits(f)
    /\ (Len(f) > 1 => f[1] # "0")
    /\ NatValue(f) <= ByteMax

ParseIP(s) ==
    IF Contains(s, ":")
    THEN IF /\ \A i \in 1..Len(s) : IsHex(s[i]) \/ s[i] = ":"
            /\ Cardinality({i \in 1..Len(s) : s[i] = ":"}) >= 2
         THEN "v6" ELSE "nil"
    ELSE LET f == Split(s, ".") IN
         IF Len(f) = 4 /\ \A i \in 1..4 : IsOctet(f[i]) THEN "v4" ELSE "nil"

IPRet(kind) == [t |-> "IP", kind |-> kind]

IPv4(v, key, value, message) ==
    IF value = <<>> THEN Ok(v, IPRet("empty"))
    ELSE IF TooManyMessages(message) THEN Panic(v)
    ELSE LET msg == getMessage(message, MessageIPv4)
             ip == ParseIP(value)
         IN  IF ip # "v4"
             THEN LET a == ValidatorAppend(v, key, msg, <<>>)
                  IN  IF a.panic THEN a ELSE Ok(a.v, IPRet(ip))
             ELSE Ok(v, IPRet(ip))

\* mailaddress.Parse is an external collaborator: parsed tells whether it
\* accepted the value.
AddressRet(s) == [t |-> "Address", s |-> s]

Email(v, key, value, message, parsed) ==
    IF value = <<>> THEN Ok(v, AddressRet(<<>>))
    ELSE IF TooManyMessages(message) THEN Panic(v)
    ELSE LET msg == getMessage(message, MessageEmail) IN
         IF ~parsed
         THEN LET a == ValidatorAppend(v, key, msg, <<>>)
              IN  IF a.panic THEN a ELSE Ok(a.v, AddressRet(<<>>))
         ELSE Ok(v, AddressRet(value))

(***************************************************************************)
(* net/url for URLs without user info, query, fragment or bracketed host.  *)
(***************************************************************************)
NoURL == [isNil |-> TRUE, err |-> <<>>, Scheme |-> <<>>, Host |-> <<>>, Path |-> <<>>,
          Opaque |-> <<>>]

URLErr(raw, reason) ==
    [NoURL EXCEPT !.err = <<"p", "a", "r", "s", "e", " ", "\"">> \o raw \o <<"\"", ":", " ">> \o reason]

MkURL(scheme, host, path, opaque) ==
    [isNil |-> FALSE, err |-> <<>>, Scheme |-> scheme, Host |-> host, Path |-> path,
     Opaque |-> opaque]

\* getScheme: the index of the ':' that ends the scheme, 0 when there is no
\* scheme, -1 when the URL starts with ':'.
RECURSIVE schemeEnd(_, _)
schemeEnd(raw, i) ==
    IF i > Len(raw) THEN 0
    ELSE IF IsLetter(raw[i]) /\ raw[i] \notin OtherLetters THEN schemeEnd(raw, i + 1)
    ELSE IF IsDigit(raw[i]) \/ raw[i] \in {"+", "-", "."}
    THEN IF i = 1 THEN 0 ELSE schemeEnd(raw, i + 1)
    ELSE IF raw[i] = ":" THEN (IF i = 1 THEN 0 - 1 ELSE i)
    ELSE 0

IndexOf(s, c) == IF Contains(s, c) THEN CHOOSE i \in 1..Len(s) : s[i] = c /\ ~Contains(SubSeq(s, 1, i - 1), c) ELSE 0

LastIndexOf(s, c) == IF Contains(s, c) THEN CHOOSE i \in 1..Len(s) : s[i] = c /\ ~Contains(Drop(s, i), c) ELSE 0

validOptionalPort(port) ==
    port = <<>> \/ (port[1] = ":" /\ AllDigits(Tail(port)))

\* shouldEscape(c, encodeHost) for the characters of the inputs.
HostCharOK(c) == IsLetter(c) \/ IsDigit(c) \/ c \in {"-", ".", "_", "~", ":", "+", "(", ")"}

\* parseHost: "" when the host is accepted, else the error text.
hostError(host) ==
    LET i == LastIndexOf(host, ":") IN
    IF i # 0 /\ ~validOptionalPort(Drop(host, i - 1))
    THEN <<"i", "n", "v", "a", "l", "i", "d", " ", "p", "o", "r", "t", " ", "a", "f", "t", "e", "r", " ", "h", "o", "s", "t">>
    ELSE IF Contains(host, "%") THEN <<"i", "n", "v", "a", "l", "i", "d", " ", "U", "R", "L", " ", "e", "s", "c", "a", "p", "e">>
    ELSE IF \E j \in 1..Len(host) : ~HostCharOK(host[j]) THEN <<"i", "n", "v", "a", "l", "i", "d", " ", "c", "h", "a", "r", "a", "c", "t", "e", "r", " ", "i", "n", " ", "h", "o", "s", "t", " ", "n", "a", "m", "e">>
    ELSE <<>>

urlParse(raw) ==
    LET e == schemeEnd(raw, 1) IN
    IF e < 0 THEN URLErr(raw, <<"m", "i", "s", "s", "i", "n", "g", " ", "p", "r", "o", "t", "o", "c", "o", "l", " ", "s", "c", "h", "e", "m", "e">>)
    ELSE LET scheme == IF e = 0 THEN <<>> ELSE ToLower(SubSeq(raw, 1, e - 1))
             rest == IF e = 0 THEN raw ELSE Drop(raw, e)
         IN  IF ~HasPrefix(rest, <<"/">>) /\ scheme # <<>>
             THEN MkURL(scheme, <<>>, <<>>, rest)
             ELSE IF /\ ~HasPrefix(rest, <<"/">>)
                     /\ Contains(Split(rest, "/")[1], ":")
             THEN URLErr(raw, <<"f", "i", "r", "s", "t", " ", "p", "a", "t", "h", " ", "s", "e", "g", "m", "e", "n", "t", " ", "i", "n", " ", "U", "R", "L", " ", "c", "a", "n", "n", "o", "t", " ", "c", "o", "n", "t", "a", "i", "n", " ", "c", "o", "l", "o", "n">>)
             ELSE IF HasPrefix(rest, <<"/", "/">>)
                     /\ (scheme # <<>> \/ ~HasPrefix(rest, <<"/", "/", "/">>))
             THEN LET after == Drop(rest, 2)
                      i == IndexOf(after, "/")
                      authority == IF i = 0 THEN after ELSE SubSeq(after, 1, i - 1)
                      path == IF i = 0 THEN <<>> ELSE Drop(after, i - 1)
                      herr == hostError(authority)
                  IN  IF herr # <<>> THEN URLErr(raw, herr)
                      ELSE MkURL(scheme, authority, path, <<>>)
             ELSE MkURL(scheme, <<>>, rest, <<>>)

\* EscapedPath: a space of the path is written %20.
RECURSIVE escapePath(_)
escapePath(path) ==
    IF path = <<>> THEN <<>>
    ELSE (IF Head(path) = " " THEN <<"%", "2", "0">> ELSE <<Head(path)>>)
             \o escapePath(Tail(path))

\* func (u *URL) String()
urlString(u) ==
    (IF u.Scheme # <<>> THEN u.Scheme \o <<":">> ELSE <<>>)
    \o (IF u.Opaque # <<>> THEN u.Opaque
        ELSE (IF (u.Scheme # <<>> \/ u.Host # <<>>) /\ (u.Host # <<>> \/ u.Path # <<>>)
              THEN <<"/", "/">> \o u.Host ELSE <<>>)
             \o (IF u.Path # <<>> /\ Head(u.Path) # "/" /\ u.Host # <<>>
                 THEN <<"/">> ELSE <<>>)
             \o escapePath(u.Path))

\* A host whose port is left on it.
hostOnlyKeepsPort(host) == host

\* net.SplitHostPort: the host without its port, or the whole on an error.
hostOnly(host) ==
    LET i == LastIndexOf(host, ":") IN
    IF i # 0 /\ ~Contains(SubSeq(host, 1, i - 1), ":") THEN SubSeq(host, 1, i - 1) ELSE host

URLRet(u) == [t |-> "URL", u |-> u]

URL(v, key, value, message) ==
    IF value = <<>> THEN Ok(v, URLRet(NoURL))
    ELSE IF TooManyMessages(message) THEN Panic(v)
    ELSE LET msg == getMessage(message, MessageURL)
             u1 == urlParse(value)
             fail(a) == IF a.panic THEN a ELSE Ok(a.v, URLRet(NoURL))
         IN  IF u1.isNil
             THEN fail(ValidatorAppend(v, key, <<"%", "s", ":", " ", "%", "s">>, <<StrArg(msg), ErrArg(u1.err)>>))
             ELSE LET u == IF u1.Scheme = <<>>
                           THEN urlParse(urlString([u1 EXCEPT !.Scheme = <<"h", "t", "t", "p">>]))
                           ELSE u1
                  IN  IF u.isNil
                      THEN fail(ValidatorAppend(v, key, <<"%", "s", ":", " ", "%", "s">>,
                                    <<StrArg(msg), ErrArg(u.err)>>))
                      ELSE IF u.Host = <<>> THEN fail(ValidatorAppend(v, key, msg, <<>>))
                      ELSE IF ~validDomain(hostOnly(u.Host))
                      THEN fail(ValidatorAppend(v, key, msg, <<>>))
                      ELSE Ok(v, URLRet(u))

(***************************************************************************)
(* The checks on uploaded files.  A file header is its list of             *)
(* Content-Type values, its size in bytes and the image it decodes to      *)
(* (isImage false when image.DecodeConfig fails).                          *)
(***************************************************************************)
MessageNotAnImage ==
    <<"m", "u", "s", "t", " ", "b", "e", " ", "a", "n", " ", "i", "m", "a", "g", "e">>

MessageImageFormat ==
    <<"m", "u", "s", "t", " ", "b", "e", " ", "a", "n", " ", "i", "m", "a", "g", "e", " ", "o", "f", " ", "'", "%", "s", "'", " ", "f", "o", "r", "m", "a", "t">>

ImageJPEG == <<"i", "m", "a", "g", "e", "/", "j", "p", "e", "g">>

ImagePNG == <<"i", "m", "a", "g", "e", "/", "p", "n", "g">>

ImageGIF == <<"i", "m", "a", "g", "e", "/", "g", "i", "f">>

supportedImageFormats ==
    (<<"j", "p", "e", "g">> :> ImageJPEG) @@ (<<"p", "n", "g">> :> ImagePNG)
        @@ (<<"g", "i", "f">> :> ImageGIF) @@ (<<"j", "p", "g">> :> ImageJPEG)

formatMatches(uploadedType, format) ==
    /\ format \in DOMAIN supportedImageFormats
    /\ TrimSpace(supportedImageFormats[format]) = uploadedType

isFileImage(uploadedType, format) ==
    IF format # <<>>
    THEN \/ formatMatches(uploadedType, format)
         \/ \E i \in 1..Len(Split(format, ",")) :
                formatMatches(uploadedType, Split(format, ",")[i])
    ELSE \E f \in DOMAIN supportedImageFormats : supportedImageFormats[f] = uploadedType

IsImage(v, key, fileHeader, formats, message) ==
    IF TooManyMessages(message) THEN Panic(v)
    ELSE LET msg == getMessage(message, <<>>)
             fail(a) == IF a.panic THEN a ELSE Ok(a.v, BoolRet(FALSE))
         IN  IF \E i \in 1..Len(fileHeader.types) :
                    isFileImage(fileHeader.types[i], ToLower(formats))
             THEN Ok(v, BoolRet(TRUE))
             ELSE IF msg # <<>> THEN fail(ValidatorAppend(v, key, msg, <<>>))
             ELSE IF formats # <<>>
             THEN fail(ValidatorAppend(v, key,
                           Sprintf(MessageImageFormat, <<StrArg(formats)>>), <<>>))
             ELSE fail(ValidatorAppend(v, key, MessageNotAnImage, <<>>))

MessageImageDimension ==
    <<"i", "m", "a", "g", "e", " ", "d", "i", "m", "e", "n", "s", "i", "o", "n", " ", "(", "W", " ", "x", " ", "H", ")", " ", "m", "u", "s", "t", " ", "b", "e", " ", "b", "e", "t", "w", "e", "e", "n", " ", "'", "%", "d", " ", "x", " ", "%", "d", "'", " ", "a", "n", "d", " ", "'", "%", "d", " ", "x", " ", "%", "d", "'", " ", "p", "i", "x", "e", "l", "s">>

MessageImageMinDimension ==
    <<"i", "m", "a", "g", "e", " ", "d", "i", "m", "e", "n", "s", "i", "o", "n", " ", "(", "W", " ", "x", " ", "H", ")", " ", "c", "a", "n", "n", "o", "t", " ", "b", "e", " ", "l", "e", "s", "s", " ", "t", "h", "a", "n", " ", "'", "%", "d", " ", "x", " ", "%", "d", "'", " ", "p", "i", "x", "e", "l", "s">>

MessageImageMaxDimension ==
    <<"i", "m", "a", "g", "e", " ", "d", "i", "m", "e", "n", "s", "i", "o", "n", " ", "(", "W", " ", "x", " ", "H", ")", " ", "c", "a", "n", "n", "o", "t", " ", "b", "e", " ", "m", "o", "r", "e", " ", "t", "h", "a", "n", " ", "'", "%", "d", " ", "x", " ", "%", "d", "'", " ", "p", "i", "x", "e", "l", "s">>

MessageFileSize ==
    <<"f", "i", "l", "e", " ", "s", "i", "z", "e", " ", "m", "u", "s", "t", " ", "b", "e", " ", "b", "e", "t", "w", "e", "e", "n", " ", "'", "%", ".", "1", "f", "'", "K", "B", " ", "a", "n", "d", " ", "'", "%", ".", "1", "f", "'", "K", "B">>

MessageFileMaxSize ==
    <<"f", "i", "l", "e", " ", "s", "i", "z", "e", " ", "c", "a", "n", "n", "o", "t", " ", "b", "e", " ", "l", "a", "r", "g", "e", "r", " ", "t", "h", "a", "n", " ", "'", "%", ".", "1", "f", "'", "K", "B">>

MessageFileMinSize ==
    <<"f", "i", "l", "e", " ", "s", "i", "z", "e", " ", "c", "a", "n", "n", "o", "t", " ", "b", "e", " ", "l", "e", "s", "s", " ", "t", "h", "a", "n", " ", "'", "%", ".", "1", "f", "'", "K", "B">>

\* math.Ceil(float64(byteData) / 1024), for a size that is not negative.
bytesToKiloBytes(byteData) == FloatArg((byteData + 1023) \div 1024)

FileSize(v, key, fileHeader, minSizeInBytes, maxSizeInBytes, message) ==
    IF minSizeInBytes = 0 /\ maxSizeInBytes = 0 THEN Panic(v)
    ELSE IF minSizeInBytes < 0 /\ maxSizeInBytes < 0 THEN Ok(v, NoRet)
    ELSE IF TooManyMessages(message) THEN Panic(v)
    ELSE LET msg == getMessage(message, <<>>)
             minSizeErrMsg ==
                 IF minSizeInBytes >= 0 /\ fileHeader.Size < minSizeInBytes
                 THEN Sprintf(MessageFileMinSize, <<bytesToKiloBytes(minSizeInBytes)>>)
                 ELSE <<>>
             maxSizeErrMsg ==
                 IF maxSizeInBytes >= 0 /\ fileHeader.Size > maxSizeInBytes
                 THEN Sprintf(MessageFileMaxSize, <<bytesToKiloBytes(maxSizeInBytes)>>)
                 ELSE <<>>
         IN  IF msg # <<>> THEN ValidatorAppend(v, key, msg, <<>>)
             ELSE IF minSizeErrMsg # <<>> /\ maxSizeErrMsg # <<>>
             THEN ValidatorAppend(v, key,
                      Sprintf(MessageFileSize, <<bytesToKiloBytes(minSizeInBytes),
                                                 bytesToKiloBytes(maxSizeInBytes)>>), <<>>)
             ELSE IF minSizeErrMsg # <<>> THEN ValidatorAppend(v, key, minSizeErrMsg, <<>>)
             ELSE IF maxSizeErrMsg # <<>> THEN ValidatorAppend(v, key, maxSizeErrMsg, <<>>)
             ELSE Ok(v, NoRet)

\* A *ImageDimension: nil, or a width and a height.
NilDimension == [isNil |-> TRUE, Width |-> 0, Height |-> 0]

Dimension(w, h) == [isNil |-> FALSE, Width |-> w, Height |-> h]

\* getDimension: the decoded size, or nil when the file does not decode.
getDimension(fileHeader) ==
    IF fileHeader.isImage THEN Dimension(fileHeader.Width, fileHeader.Height)
    ELSE NilDimension

ImageDimensions(v, key, fileHeader, minDimension, maxDimension, message) ==
    IF maxDimension.isNil /\ minDimension.isNil THEN Panic(v)
    ELSE IF TooManyMessages(message) THEN Panic(v)
    ELSE LET msg == getMessage(message, <<>>)
             img == IsImage(v, key, fileHeader, <<>>,
                        <<<<"F", "i", "l", "e", " ", "i", "s", " ", "n", "o", "t", " ", "a", "n", " ", "i", "m", "a", "g", "e", ".", " ", "O", "n", "l", "y", " ", "d", "i", "m", "e", "n", "s", "i", "o", "n", "s", " ", "o", "f", " ", "i", "m", "a", "g", "e", " ", "f", "i", "l", "e", "s", " ", "c", "a", "n", " ", "b", "e", " ", "d", "e", "t", "e", "r", "m", "i", "n", "e", "d", ".">>>>)
             realDim == getDimension(fileHeader)
             minDimErrorMsg ==
                 IF /\ ~minDimension.isNil
                    /\ (realDim.Width < minDimension.Width
                           \/ realDim.Height < minDimension.Height)
                 THEN Sprintf(MessageImageMinDimension,
                          <<IntArg(minDimension.Width), IntArg(minDimension.Height)>>)
                 ELSE <<>>
             maxDimErrorMsg ==
                 IF /\ ~maxDimension.isNil
                    /\ (realDim.Width > maxDimension.Width
                           \/ realDim.Height > maxDimension.Height)
                 THEN Sprintf(MessageImageMaxDimension,
                          <<IntArg(maxDimension.Width), IntArg(maxDimension.Height)>>)
                 ELSE <<>>
         IN  IF img.panic THEN img
             ELSE IF ~img.ret.b THEN Ok(img.v, NoRet)
             ELSE IF realDim.isNil
             THEN ValidatorAppend(v, key,
                      Sprintf(<<"E", "r", "r", "o", "r", " ", "g", "e", "t", "t", "i", "n", "g", " ", "u", "p", "l", "o", "a", "d", "e", "d", " ", "i", "m", "a", "g", "e", " ", "d", "i", "m", "e", "n", "s", "i", "o", "n", ".", " ", "P", "l", "e", "a", "s", "e", " ", "t", "r", "y", " ", "a", "g", "a", "i", "n", ".">>, <<>>), <<>>)
             ELSE IF msg # <<>> THEN ValidatorAppend(v, key, msg, <<>>)
             ELSE IF minDimErrorMsg # <<>> /\ maxDimErrorMsg # <<>>
             THEN ValidatorAppend(v, key,
                      Sprintf(MessageImageDimension,
                          <<IntArg(minDimension.Width), IntArg(minDimension.Height),
                            IntArg(maxDimension.Width), IntArg(maxDimension.Height)>>), <<>>)
             ELSE IF maxDimErrorMsg # <<>> THEN ValidatorAppend(v, key, maxDimErrorMsg, <<>>)
             ELSE IF minDimErrorMsg # <<>> THEN ValidatorAppend(v, key, minDimErrorMsg, <<>>)
             ELSE Ok(v, NoRet)

TotalMsgs(v) ==
    LET RECURSIVE Sum(_)
        Sum(S) == IF S = {} THEN 0
                  ELSE LET k == CHOOSE x \in S : TRUE
                       IN  Len(v.Errors[k]) + Sum(S \ {k})
    IN  Sum(DOMAIN v.Errors)

(***************************************************************************)
(* Inputs.  A list of inputs starts with the two that the specification of *)
(* all operations uses.                                                    *)
(***************************************************************************)
Ids == {1, 2}

Fields == {<<"a">>, <<"b">>}

Texts == {<<"x">>, <<"%">>}

\* The field a check function is called for.
CheckFields == {<<"a">>}

\* (key, subKey) of a call of Sub.
SubArgs == {<<<<"a">>, <<>>>>, <<<<"b">>, <<"1">>>>}

\* One override, two, none, the empty one, one with a '%'.
Overrides == <<<<<<"x">>>>, <<<<"x">>, <<"y">>>>, <<>>, <<<<>>>>, <<<<"%">>>>, <<<<"%", "d">>>>>>

StringValue(s) == [t |-> "string", s |-> s]

RequiredValues ==
    <<StringValue(<<>>), StringValue(<<"x">>), StringValue(<<" ">>),
      [t |-> "*string", isNil |-> TRUE, s |-> <<>>],
      [t |-> "*string", isNil |-> FALSE, s |-> <<>>],
      [t |-> "*string", isNil |-> FALSE, s |-> <<"x">>],
      [t |-> "int", n |-> 0], [t |-> "int", n |-> 1],
      [t |-> "int64", n |-> 0], [t |-> "int64", n |-> 1],
      [t |-> "uint", n |-> 0], [t |-> "uint", n |-> 1],
      [t |-> "uint64", n |-> 0], [t |-> "uint64", n |-> 1],
      [t |-> "bool", b |-> FALSE], [t |-> "bool", b |-> TRUE],
      [t |-> "Address", s |-> <<>>], [t |-> "Address", s |-> <<"x">>],
      [t |-> "List", len |-> 0], [t |-> "List", len |-> 1],
      [t |-> "[]int64", zero |-> <<>>], [t |-> "[]int64", zero |-> <<TRUE>>],
      [t |-> "[]int64", zero |-> <<FALSE>>],
      [t |-> "ptr", isNil |-> TRUE], [t |-> "ptr", isNil |-> FALSE],
      [t |-> "slice", zero |-> <<>>], [t |-> "slice", zero |-> <<TRUE>>],
      [t |-> "slice", zero |-> <<TRUE, FALSE>>],
      [t |-> "float64"]>>

IntValues == <<1, 0, 2>>

IntLists == <<<<2>>, <<>>, <<1, 2>>>>

StrValues == <<<<"c">>, <<>>, <<" ", "A", " ">>, <<"%">>, <<"b">>, <<"%", "d">>>>

StrLists == <<<<<<"c">>>>, <<>>, <<<<"A">>, <<"%">>>>, <<<<"%", "d">>>>>>

DomainValues ==
    <<<<"a", ".", "b">>, <<"a">>, <<>>, <<"a", " ", "b", ".", "c">>,
      <<"a", ".", ".", "b">>, <<".", "a">>, <<"a", ".">>, <<"a", "-", "1", ".", "U+00E9">>,
      <<"a", ".", "b", "_">>,
      [i \in 1..LabelMax |-> "a"] \o <<".", "b">>,
      [i \in 1..(LabelMax + 1) |-> "a"] \o <<".", "b">>>>

URLValues == <<<<"a", ".", "b">>, <<"h", "t", "t", "p", ":", "/", "/", "a">>, <<>>, <<"h", "t", "t", "p", ":", "/", "/", "a", ".", "b", "/", "c">>, <<":", "a">>, <<"a", " ", "b">>, <<"a", ".", "b", ":", "1">>, <<"h", "t", "t", "p", ":", "/", "/", "a", ".", "b", ":", "8", "0">>>>

EmailValues == <<<<"a", "@", "b", ".", "c">>, <<>>>>

IPv4Values == <<<<"1", ".", "2", ".", "3", ".", "4">>, <<"1", ".", "2", ".", "3">>, <<>>, <<":", ":", "1">>, <<"2", "5", "6", ".", "1", ".", "1", ".", "1">>>>

HexColorValues == <<<<"#", "f", "f", "f">>, <<"f", "f", "f">>, <<>>, <<"#", "f", "f", "f", "f">>, <<"#", "f", "f">>, <<"#", "F", "F", "F", "F", "F", "F">>, <<"#", "g", "g", "g">>, <<"#", "f", "f", "f", "f", "f", "f", "f">>>>

LenValues == <<<<"x", "y">>, <<>>, <<"x">>, <<"U+00E9">>>>

LenMins == <<3, 0, 1>>

LenMaxs == <<1, 0>>

IntegerValues == <<<<"6">>, <<"1", ".", "2">>, <<>>, <<" ", "6", " ">>, <<"-", "1">>, <<"x">>, MinInt64Digits>>

BooleanValues == <<<<"y", "e", "s">>, <<"o", "n">>, <<>>, <<"Y", "E", "S">>, <<"0">>>>

DateValues == <<<<"2", "0", "1", "7", "-", "1", "1", "-", "1", "4">>, <<"2", "0", "1", "7", "-", "1", "1">>, <<>>>>

DateLayouts == <<<<"2", "0", "0", "6", "-", "0", "1", "-", "0", "2">>, <<>>>>

PhoneValues == <<<<"1", "2", "3", "4", "5">>, <<"1", "2", "3", "4">>, <<>>, <<"+", "1", " ", "(", "2", ")", " ", "3", "-", "4", ".", "5">>, <<"1", "2", "3", "4", "5", "a">>>>

RangeValues == <<2, 0, 0 - 1>>

RangeMins == <<3, 0, 1, 0 - 3>>

RangeMaxs == <<1, 0, 0 - 2>>

(***************************************************************************)
(* The state: the aggregates, the last call with the state before it, and  *)
(* the number of check-function calls made.                                *)
(*                                                                         *)
(* A specification runs the actions under a configuration c: rec, whether  *)
(* a call's arguments, result and state before are recorded; cap, the      *)
(* bound on the messages held; ids, the aggregates called; cids, the ones  *)
(* check functions are called on; all, whether every listed input is used  *)
(* or the first two.                                                       *)
(***************************************************************************)
\* Between two calls the caller holds no record of a call.
Idle == [op |-> "idle", recv |-> 0, key |-> <<>>, args |-> <<>>, pre |-> <<>>,
         ret |-> NoRet, panic |-> FALSE]

Init ==
    /\ vs \in [Ids -> {New, ZeroValidator}]
    /\ last = Idle
    /\ checks = 0
    /\ threads = <<>>

Held == TotalMsgs(vs[1]) + TotalMsgs(vs[2])

Room(c) == c.cap - Held

In(c, list) ==
    {list[i] : i \in (IF c.all THEN 1..Len(list) ELSE 1..(IF Len(list) < 2 THEN Len(list) ELSE 2))}

Call(c, p, op, key, args, r) ==
    /\ last = Idle
    /\ TotalMsgs(r.v) - TotalMsgs(vs[p]) <= Room(c)
    /\ \A k \in DOMAIN r.v.Errors : Len(k) <= MaxKeyLen
    /\ vs' = [vs EXCEPT ![p] = r.v]
    /\ last' = IF c.rec
               THEN [op |-> op, recv |-> p, key |-> key, args |-> args, pre |-> vs,
                     ret |-> r.ret, panic |-> r.panic]
               ELSE [Idle EXCEPT !.op = op, !.panic = r.panic]
    /\ UNCHANGED threads

DoAppend(c) ==
    /\ Room(c) >= 1
    /\ \E p \in c.ids, key \in Fields, value \in Texts :
           Call(c, p, "Append", key, [value |-> value, format |-> <<>>],
                ValidatorAppend(vs[p], key, value, <<>>))
    /\ UNCHANGED checks

Errs(p) ==
    {NilErr, PtrErr(0)}
        \cup {PtrErr(q) : q \in Ids \ {p}}
        \cup {ValErr(vs[q]) : q \in Ids \ {p}}
        \cup {PlainErr(s) : s \in Texts}

DoSub(c) ==
    /\ \E p \in c.ids, ks \in SubArgs :
           \E err \in Errs(p) :
               /\ vs[p].nilMap \/ TotalMsgs(SubOf(err, vs)) <= Room(c)
               /\ \E order \in Orders(DOMAIN SubOf(err, vs).Errors) :
                      Call(c, p, "Sub", ks[1], [subKey |-> ks[2], err |-> err],
                           Sub(vs[p], ks[1], ks[2], err, vs, order))
    /\ UNCHANGED checks

DoMerge(c) ==
    /\ \E p \in c.ids, q \in Ids :
           /\ p # q
           /\ vs[p].nilMap \/ TotalMsgs(vs[q]) <= Room(c)
           /\ \E order \in Orders(DOMAIN vs[q].Errors) :
                  Call(c, p, "Merge", <<>>, [other |-> q], Merge(vs[p], vs[q], order))
    /\ UNCHANGED checks

DoErrorOrNil(c) ==
    /\ \E p \in c.ids : Call(c, p, "ErrorOrNil", <<>>, <<>>, ErrorOrNil(p, vs))
    /\ UNCHANGED checks

DoString(c) ==
    /\ \E p \in c.ids :
           \E order \in Orders(DOMAIN vs[p].Errors) :
               Call(c, p, "String", <<>>, <<>>, String(vs[p], order))
    /\ UNCHANGED checks

DoRequired(c) ==
    /\ checks < MaxChecks
    /\ \E p \in c.cids, key \in CheckFields, value \in In(c, RequiredValues), message \in In(c, Overrides) :
           Call(c, p, "Required", key, [value |-> value, message |-> message],
                 Required(vs[p], key, value, message))
    /\ checks' = checks + 1

DoExcludeInt64(c) ==
    /\ checks < MaxChecks
    /\ \E p \in c.cids, key \in CheckFields, value \in In(c, IntValues), list \in In(c, IntLists),
          message \in In(c, Overrides) :
           Call(c, p, "ExcludeInt64", key, [value |-> value, list |-> list, message |-> message],
                 ExcludeInt64(vs[p], key, value, list, message))
    /\ checks' = checks + 1

DoIncludeInt64(c) ==
    /\ checks < MaxChecks
    /\ \E p \in c.cids, key \in CheckFields, value \in In(c, IntValues), list \in In(c, IntLists),
          message \in In(c, Overrides) :
           Call(c, p, "IncludeInt64", key, [value |-> value, list |-> list, message |-> message],
                 IncludeInt64(vs[p], key, value, list, message))
    /\ checks' = checks + 1

DoExclude(c) ==
    /\ checks < MaxChecks
    /\ \E p \in c.cids, key \in CheckFields, value \in In(c, StrValues), list \in In(c, StrLists),
          message \in In(c, Overrides) :
           Call(c, p, "Exclude", key, [value |-> value, list |-> list, message |-> message],
                 Exclude(vs[p], key, value, list, message))
    /\ checks' = checks + 1

DoInclude(c) ==
    /\ checks < MaxChecks
    /\ \E p \in c.cids, key \in CheckFields, value \in In(c, StrValues), list \in In(c, StrLists),
          message \in In(c, Overrides) :
           Call(c, p, "Include", key, [value |-> value, list |-> list, message |-> message],
                 Include(vs[p], key, value, list, message))
    /\ checks' = checks + 1

DoDomain(c) ==
    /\ checks < MaxChecks
    /\ \E p \in c.cids, key \in CheckFields, value \in In(c, DomainValues), message \in In(c, Overrides) :
           Call(c, p, "Domain", key, [value |-> value, message |-> message],
                 Domain(vs[p], key, value, message))
    /\ checks' = checks + 1

DoURL(c) ==
    /\ checks < MaxChecks
    /\ \E p \in c.cids, key \in CheckFields, value \in In(c, URLValues), message \in In(c, Overrides) :
           Call(c, p, "URL", key, [value |-> value, message |-> message],
                 URL(vs[p], key, value, message))
    /\ checks' = checks + 1

DoEmail(c) ==
    /\ checks < MaxChecks
    /\ \E p \in c.cids, key \in CheckFields, value \in In(c, EmailValues), message \in In(c, Overrides),
          parsed \in BOOLEAN :
           Call(c, p, "Email", key, [value |-> value, message |-> message, parsed |-> parsed],
                 Email(vs[p], key, value, message, parsed))
    /\ checks' = checks + 1

DoIPv4(c) ==
    /\ checks < MaxChecks
    /\ \E p \in c.cids, key \in CheckFields, value \in In(c, IPv4Values), message \in In(c, Overrides) :
           Call(c, p, "IPv4", key, [value |-> value, message |-> message],
                 IPv4(vs[p], key, value, message))
    /\ checks' = checks + 1

DoHexColor(c) ==
    /\ checks < MaxChecks
    /\ \E p \in c.cids, key \in CheckFields, value \in In(c, HexColorValues), message \in In(c, Overrides) :
           Call(c, p, "HexColor", key, [value |-> value, message |-> message],
                 HexColor(vs[p], key, value, message))
    /\ checks' = checks + 1

DoLen(c) ==
    /\ checks < MaxChecks
    /\ \E p \in c.cids, key \in CheckFields, value \in In(c, LenValues), min \in In(c, LenMins),
          max \in In(c, LenMaxs), message \in In(c, Overrides) :
           Call(c, p, "Len", key, [value |-> value, min |-> min, max |-> max, message |-> message],
                 ValidatorLen(vs[p], key, value, min, max, message))
    /\ checks' = checks + 1

DoInteger(c) ==
    /\ checks < MaxChecks
    /\ \E p \in c.cids, key \in CheckFields, value \in In(c, IntegerValues), message \in In(c, Overrides) :
           Call(c, p, "Integer", key, [value |-> value, message |-> message],
                 Integer(vs[p], key, value, message))
    /\ checks' = checks + 1

DoBoolean(c) ==
    /\ checks < MaxChecks
    /\ \E p \in c.cids, key \in CheckFields, value \in In(c, BooleanValues), message \in In(c, Overrides) :
           Call(c, p, "Boolean", key, [value |-> value, message |-> message],
                 Boolean(vs[p], key, value, message))
    /\ checks' = checks + 1

DoDate(c) ==
    /\ checks < MaxChecks
    /\ \E p \in c.cids, key \in CheckFields, value \in In(c, DateValues), layout \in In(c, DateLayouts),
          message \in In(c, Overrides) :
           Call(c, p, "Date", key, [value |-> value, layout |-> layout, message |-> message],
                 Date(vs[p], key, value, layout, message))
    /\ checks' = checks + 1

DoPhone(c) ==
    /\ checks < MaxChecks
    /\ \E p \in c.cids, key \in CheckFields, value \in In(c, PhoneValues), message \in In(c, Overrides) :
           Call(c, p, "Phone", key, [value |-> value, message |-> message],
                 Phone(vs[p], key, value, message))
    /\ checks' = checks + 1

DoRange(c) ==
    /\ checks < MaxChecks
    /\ \E p \in c.cids, key \in CheckFields, value \in In(c, RangeValues), min \in In(c, RangeMins),
          max \in In(c, RangeMaxs), message \in In(c, Overrides) :
           Call(c, p, "Range", key, [value |-> value, min |-> min, max |-> max, message |-> message],
                 Range(vs[p], key, value, min, max, message))
    /\ checks' = checks + 1

\* The call has returned and the caller goes on; a panic ends the program.
\* File headers: a PNG of 2 x 3 pixels and 2048 bytes, a JPEG of 4 x 4 pixels
\* and 1 byte, a text file, a file declared a PNG that does not decode, a
\* file without a Content-Type, a GIF.
FileHeaders ==
    <<[types |-> <<ImagePNG>>, Size |-> 2048, isImage |-> TRUE, Width |-> 2, Height |-> 3],
      [types |-> <<ImageJPEG>>, Size |-> 1, isImage |-> TRUE, Width |-> 4, Height |-> 4],
      [types |-> <<<<"t", "e", "x", "t", "/", "p", "l", "a", "i", "n">>>>, Size |-> 0, isImage |-> FALSE, Width |-> 0, Height |-> 0],
      [types |-> <<ImagePNG>>, Size |-> 1025, isImage |-> FALSE, Width |-> 0, Height |-> 0],
      [types |-> <<>>, Size |-> 1, isImage |-> FALSE, Width |-> 0, Height |-> 0],
      [types |-> <<ImageGIF>>, Size |-> 1024, isImage |-> TRUE, Width |-> 1, Height |-> 1]>>

ImageFormats ==
    <<<<"j", "p", "e", "g", ",", " ", "p", "n", "g">>, <<>>, <<"j", "p", "e", "g">>, <<"p", "n", "g", ",", "j", "p", "e", "g">>, <<"j", "p", "e", "g", ",", " ", "p", "n", "g", ",", " ", "g", "i", "f">>,
      <<"P", "N", "G">>, <<"b", "m", "p">>>>

DoIsImage(c) ==
    /\ checks < MaxChecks
    /\ \E p \in c.cids, key \in CheckFields, fileHeader \in In(c, FileHeaders),
          formats \in In(c, ImageFormats), message \in In(c, Overrides) :
           Call(c, p, "IsImage", key,
                [fileHeader |-> fileHeader, formats |-> formats, message |-> message],
                IsImage(vs[p], key, fileHeader, formats, message))
    /\ checks' = checks + 1

FileSizeMins == <<1025, 0 - 1, 0, 4096>>

FileSizeMaxs == <<2048, 0 - 1, 0, 1>>

DimensionMins == <<Dimension(2, 3), NilDimension, Dimension(3, 3), Dimension(4, 5)>>

DimensionMaxs == <<Dimension(4, 4), NilDimension, Dimension(1, 1), Dimension(2, 3)>>

DoFileSize(c) ==
    /\ checks < MaxChecks
    /\ \E p \in c.cids, key \in CheckFields, fileHeader \in In(c, FileHeaders),
          min \in In(c, FileSizeMins), max \in In(c, FileSizeMaxs),
          message \in In(c, Overrides) :
           Call(c, p, "FileSize", key,
                [fileHeader |-> fileHeader, min |-> min, max |-> max, message |-> message],
                FileSize(vs[p], key, fileHeader, min, max, message))
    /\ checks' = checks + 1

DoImageDimensions(c) ==
    /\ checks < MaxChecks
    /\ \E p \in c.cids, key \in CheckFields, fileHeader \in In(c, FileHeaders),
          min \in In(c, DimensionMins), max \in In(c, DimensionMaxs),
          message \in In(c, Overrides) :
           Call(c, p, "ImageDimensions", key,
                [fileHeader |-> fileHeader, min |-> min, max |-> max, message |-> message],
                ImageDimensions(vs[p], key, fileHeader, min, max, message))
    /\ checks' = checks + 1

Return ==
    /\ last # Idle
    /\ ~last.panic
    /\ last' = Idle
    /\ UNCHANGED <<vs, checks, threads>>

(***************************************************************************)
(* Spec: every operation, on both aggregates, the calls not recorded.      *)
(***************************************************************************)
All == [rec |-> FALSE, cap |-> MaxMsgs, ids |-> Ids, cids |-> {1}, all |-> FALSE]

Next ==
    \/ DoAppend(All) \/ DoSub(All) \/ DoMerge(All) \/ DoErrorOrNil(All) \/ DoString(All)
    \/ DoRequired(All) \/ DoExcludeInt64(All) \/ DoIncludeInt64(All) \/ DoExclude(All)
    \/ DoInclude(All) \/ DoDomain(All) \/ DoURL(All) \/ DoEmail(All) \/ DoIPv4(All)
    \/ DoHexColor(All) \/ DoLen(All) \/ DoInteger(All) \/ DoBoolean(All) \/ DoDate(All)
    \/ DoPhone(All) \/ DoRange(All)
    \/ Return

Spec == Init /\ [][Next]_vars

(***************************************************************************)
(* SpecMerge: Append, Merge, ErrorOrNil and String, every call recorded.   *)
(***************************************************************************)
Agg == [rec |-> TRUE, cap |-> MaxAggMsgs, ids |-> Ids, cids |-> {}, all |-> TRUE]

NextMerge ==
    \/ DoAppend(Agg) \/ DoMerge(Agg) \/ DoErrorOrNil(Agg) \/ DoString(Agg)
    \/ Return

SpecMerge == Init /\ [][NextMerge]_vars

(***************************************************************************)
(* SpecSub: Append, Sub and String, every call recorded.                   *)
(***************************************************************************)
NextSub ==
    \/ DoAppend(Agg) \/ DoSub(Agg) \/ DoString(Agg)
    \/ Return

SpecSub == Init /\ [][NextSub]_vars

(***************************************************************************)
(* SpecChecks: check-function calls with every listed input, recorded, on  *)
(* an aggregate that is new, the zero value, or holds one message.         *)
(***************************************************************************)
Checks == [rec |-> TRUE, cap |-> MaxAggMsgs, ids |-> {}, cids |-> {1}, all |-> TRUE]

Receivers ==
    {New, ZeroValidator} \cup {ValidatorAppend(New, key, <<"x">>, <<>>).v : key \in Fields}

InitChecks ==
    /\ vs \in [Ids -> Receivers]
    /\ vs[2] = New
    /\ last = Idle
    /\ checks = 0
    /\ threads = <<>>

NextChecks ==
    \/ DoRequired(Checks) \/ DoExcludeInt64(Checks) \/ DoIncludeInt64(Checks)
    \/ DoExclude(Checks) \/ DoInclude(Checks) \/ DoDomain(Checks) \/ DoURL(Checks)
    \/ DoEmail(Checks) \/ DoIPv4(Checks) \/ DoHexColor(Checks) \/ DoLen(Checks)
    \/ DoInteger(Checks) \/ DoBoolean(Checks) \/ DoDate(Checks) \/ DoPhone(Checks)
    \/ DoRange(Checks)
    \/ Return

SpecChecks == InitChecks /\ [][NextChecks]_vars

(***************************************************************************)
(* SpecFiles: calls of the checks on uploaded files with every listed      *)
(* input, recorded, on the receivers of SpecChecks.                        *)
(***************************************************************************)
NextFiles ==
    \/ DoIsImage(Checks) \/ DoFileSize(Checks) \/ DoImageDimensions(Checks)
    \/ Return

SpecFiles == InitChecks /\ [][NextFiles]_vars

(***************************************************************************)
(* Properties.  A recorded call is judged on last: its receiver, key and   *)
(* arguments, the aggregates before it (pre) and after it (vs).            *)
(***************************************************************************)

\* C1: in every state reached from New() by Append, Merge, Sub and check
\* calls, a key present in Errors holds at least one message: no key maps to
\* an empty list.
NoEmptyList ==
    \A p \in Ids : \A k \in DOMAIN vs[p].Errors : Len(vs[p].Errors[k]) >= 1

NoEmptyListWitness ==
    /\ checks >= 1
    /\ last.op = "Sub"
    /\ \E p \in Ids : \E k \in DOMAIN vs[p].Errors : Len(k) > 1 /\ Len(vs[p].Errors[k]) >= 1

\* C2: ErrorOrNil returns nil exactly when the map has no key (the nil map of
\* the zero value included), and otherwise the receiver itself; it changes
\* nothing.
ErrorOrNilResult ==
    last.op = "ErrorOrNil" =>
        /\ ~last.panic
        /\ vs = last.pre
        /\ (last.ret = NilErr) <=> (DOMAIN last.pre[last.recv].Errors = {})
        /\ (DOMAIN last.pre[last.recv].Errors # {}) => last.ret = PtrErr(last.recv)

ErrorOrNilWitness ==
    /\ last.op = "ErrorOrNil"
    /\ last.ret = PtrErr(last.recv)
    /\ vs[last.ret.ref].Errors = last.pre[last.recv].Errors
    /\ \E q \in Ids : vs[q].nilMap

\* C3 as stated: Append(field, message) makes message itself the new last
\* element of the list of field, keeps the earlier messages and every other
\* key.
AppendAddsMessage ==
    (last.op = "Append" /\ ~last.panic) =>
        /\ vs[last.recv].Errors =
               Put(last.pre[last.recv].Errors, last.key,
                   Get(last.pre[last.recv].Errors, last.key) \o <<last.args.value>>)
        /\ \A q \in Ids \ {last.recv} : vs[q] = last.pre[q]

\* C3, what Append does: it adds exactly one new last element to the list of
\* field, creating it when absent, never deduplicating, keeping the earlier
\* messages and every other key; the element is message itself when message
\* holds no '%', and the rendering of message as a format otherwise ("%" is
\* recorded as "%!(NOVERB)").
AppendAddsFormatted ==
    (last.op = "Append" /\ ~last.panic) =>
        LET old == Get(last.pre[last.recv].Errors, last.key)
            new == Get(vs[last.recv].Errors, last.key)
        IN  /\ DOMAIN vs[last.recv].Errors = DOMAIN last.pre[last.recv].Errors \cup {last.key}
            /\ Len(new) = Len(old) + 1
            /\ SubSeq(new, 1, Len(old)) = old
            /\ (\A i \in 1..Len(last.args.value) : last.args.value[i] # "%")
                   => new[Len(new)] = last.args.value
            /\ last.args.value = <<"%">>
                   => new[Len(new)] = <<"%", "!", "(", "N", "O", "V", "E", "R", "B", ")">>
            /\ \A k \in DOMAIN last.pre[last.recv].Errors \ {last.key} :
                   vs[last.recv].Errors[k] = last.pre[last.recv].Errors[k]
            /\ \A q \in Ids \ {last.recv} : vs[q] = last.pre[q]

\* The same message appended to a field that holds it already, next to
\* another field.
AppendAddsFormattedWitness ==
    /\ last.op = "Append"
    /\ ~last.panic
    /\ last.args.value = <<"x">>
    /\ Get(last.pre[last.recv].Errors, last.key) = <<<<"x">>>>
    /\ Get(vs[last.recv].Errors, last.key) = <<<<"x">>, <<"x">>>>
    /\ DOMAIN last.pre[last.recv].Errors \ {last.key} # {}

\* C4: Merge(other) appends, for every key of other, other's messages in
\* their order after the receiver's messages of that key; keys of the
\* receiver alone keep their lists, keys of other alone get other's list, an
\* empty other changes nothing, and other is left unchanged.
MergeAppendsAll ==
    (last.op = "Merge" /\ ~last.panic) =>
        LET mine == last.pre[last.recv].Errors
            theirs == last.pre[last.args.other].Errors
            now == vs[last.recv].Errors
        IN  /\ DOMAIN now = DOMAIN mine \cup DOMAIN theirs
            /\ \A k \in DOMAIN now :
                   now[k] = (IF k \in DOMAIN mine THEN mine[k] ELSE <<>>)
                                \o (IF k \in DOMAIN theirs THEN theirs[k] ELSE <<>>)
            /\ (DOMAIN theirs = {}) => vs = last.pre
            /\ vs[last.args.other] = last.pre[last.args.other]

\* The receiver held a message under a key of other and a key of its own.
MergeAppendsAllWitness ==
    /\ last.op = "Merge"
    /\ ~last.panic
    /\ \E k \in DOMAIN last.pre[last.recv].Errors :
           /\ k \in DOMAIN last.pre[last.args.other].Errors
           /\ Len(vs[last.recv].Errors[k]) >= 2
           /\ vs[last.recv].Errors[k][1] # vs[last.recv].Errors[k][2]
    /\ DOMAIN last.pre[last.recv].Errors \ DOMAIN last.pre[last.args.other].Errors # {}

\* C5: Sub(baseField, subKey, err) with err an aggregate, by value or by
\* pointer, that holds errors appends, for every key k of it, its messages in
\* order under prefix + "." + k, prefix being baseField, or
\* baseField[subKey] when subKey is not empty; the receiver's other keys
\* and err stay as they were.  Nesting composes.
SubNestsKeys ==
    (/\ last.op = "Sub"
     /\ ~last.panic
     /\ last.args.err.t \in {"ptr", "val"}) =>
        LET err == last.args.err
            sub == IF err.t = "ptr" THEN last.pre[err.ref].Errors ELSE err.v.Errors
            prefix == IF last.args.subKey = <<>> THEN last.key
                      ELSE last.key \o <<"[">> \o last.args.subKey \o <<"]">>
            mine == last.pre[last.recv].Errors
            now == vs[last.recv].Errors
            under == {prefix \o <<".">> \o k : k \in DOMAIN sub}
        IN  /\ DOMAIN now = DOMAIN mine \cup under
            /\ \A k \in DOMAIN sub :
                   now[prefix \o <<".">> \o k] =
                       (IF prefix \o <<".">> \o k \in DOMAIN mine
                        THEN mine[prefix \o <<".">> \o k] ELSE <<>>) \o sub[k]
            /\ \A k \in DOMAIN mine \ under : now[k] = mine[k]
            /\ \A q \in Ids \ {last.recv} : vs[q] = last.pre[q]

\* An aggregate that received a Sub is nested under baseField[subKey], next
\* to a key the receiver held.
SubNestsKeysWitness ==
    /\ last.op = "Sub"
    /\ ~last.panic
    /\ last.args.err.t \in {"ptr", "val"}
    /\ last.args.subKey # <<>>
    /\ DOMAIN last.pre[last.recv].Errors # {}
    /\ \E k \in DOMAIN vs[last.recv].Errors :
           /\ k \notin DOMAIN last.pre[last.recv].Errors
           /\ Cardinality({i \in 1..Len(k) : k[i] = "."}) >= 2

\* C6 as stated: Sub with a non-nil error that is no aggregate appends one
\* message, the text of the error, under the prefix key itself, and changes
\* no other key.
SubPlainError ==
    (/\ last.op = "Sub"
     /\ ~last.panic
     /\ last.args.err.t = "error") =>
        LET prefix == IF last.args.subKey = <<>> THEN last.key
                      ELSE last.key \o <<"[">> \o last.args.subKey \o <<"]">>
            mine == last.pre[last.recv].Errors
        IN  /\ vs[last.recv].Errors =
                   [k \in DOMAIN mine \cup {prefix} |->
                       IF k = prefix
                       THEN (IF prefix \in DOMAIN mine THEN mine[prefix] ELSE <<>>)
                                \o <<last.args.err.s>>
                       ELSE mine[k]]
            /\ \A q \in Ids \ {last.recv} : vs[q] = last.pre[q]

\* C6 for a text without '%': one message, the text, under the prefix key.
SubPlainErrorNoVerb ==
    (/\ last.op = "Sub"
     /\ ~last.panic
     /\ last.args.err.t = "error"
     /\ \A i \in 1..Len(last.args.err.s) : last.args.err.s[i] # "%") =>
        LET prefix == IF last.args.subKey = <<>> THEN last.key
                      ELSE last.key \o <<"[">> \o last.args.subKey \o <<"]">>
            mine == last.pre[last.recv].Errors
        IN  /\ vs[last.recv].Errors =
                   [k \in DOMAIN mine \cup {prefix} |->
                       IF k = prefix
                       THEN (IF prefix \in DOMAIN mine THEN mine[prefix] ELSE <<>>)
                                \o <<last.args.err.s>>
                       ELSE mine[k]]
            /\ \A q \in Ids \ {last.recv} : vs[q] = last.pre[q]

\* C7: Sub leaves the receiver as it was, the prefix key not added, when err
\* is nil or an aggregate, by value or by pointer, without errors.
SubNothing ==
    (/\ last.op = "Sub"
     /\ \/ last.args.err.t = "nil"
        \/ last.args.err.t = "val" /\ DOMAIN last.args.err.v.Errors = {}
        \/ /\ last.args.err.t = "ptr"
           /\ last.args.err.ref # 0
           /\ DOMAIN last.pre[last.args.err.ref].Errors = {}) =>
        /\ ~last.panic
        /\ vs = last.pre

\* An empty aggregate passed by pointer to a receiver that holds a message.
SubNothingWitness ==
    /\ last.op = "Sub"
    /\ last.args.err.t = "ptr"
    /\ last.args.err.ref # 0
    /\ DOMAIN last.pre[last.args.err.ref].Errors = {}
    /\ DOMAIN last.pre[last.recv].Errors # {}
    /\ ~last.panic

\* C8: String() is a function of the contents: one line per key, the keys in
\* ascending byte order, each line key + ": " + the messages joined with
\* ", " + "." + newline, whatever the order the map is walked in; without
\* entries (the nil map too) it is "<no errors>".
StringSorted ==
    last.op = "String" =>
        LET errs == last.pre[last.recv].Errors
            Less(a, b) ==
                \E i \in 1..(Len(b)) :
                    /\ \A j \in 1..(i - 1) : j <= Len(a) /\ a[j] = b[j]
                    /\ \/ i > Len(a)
                       \/ Ord(a[i]) < Ord(b[i])
            Lines(ks) ==
                LET RECURSIVE Cat(_)
                    Cat(i) == IF i > Len(ks) THEN <<>>
                              ELSE ks[i] \o <<":", " ">> \o Join(errs[ks[i]], <<",", " ">>)
                                       \o <<".", "\n">> \o Cat(i + 1)
                IN  Cat(1)
        IN  /\ ~last.panic
            /\ vs = last.pre
            /\ last.ret.t = "string"
            /\ (DOMAIN errs = {}) =>
                   last.ret.s = <<"<", "n", "o", " ", "e", "r", "r", "o", "r", "s", ">">>
            /\ (DOMAIN errs # {}) =>
                   \E ks \in Orders(DOMAIN errs) :
                       /\ \A i \in 1..(Len(ks) - 1) : Less(ks[i], ks[i + 1])
                       /\ last.ret.s = Lines(ks)

\* Two keys, one a prefix of the other, and a field with two messages.
StringSortedWitness ==
    /\ last.op = "String"
    /\ \E a \in DOMAIN vs[last.recv].Errors, b \in DOMAIN vs[last.recv].Errors :
           /\ Len(a) < Len(b)
           /\ SubSeq(b, 1, Len(a)) = a
    /\ \E k \in DOMAIN vs[last.recv].Errors : Len(vs[last.recv].Errors[k]) >= 2

\* C9 as stated: a call of a check leaves the aggregate as it was or appends
\* exactly one message under the given key; it never adds more than one
\* message and never changes another key.
CheckAtMostOne ==
    (last.op \notin {"idle", "Append", "Sub", "Merge", "ErrorOrNil", "String"}) =>
        LET mine == last.pre[last.recv].Errors
            now == vs[last.recv].Errors
            old == IF last.key \in DOMAIN mine THEN mine[last.key] ELSE <<>>
        IN  \/ vs = last.pre
            \/ /\ DOMAIN now = DOMAIN mine \cup {last.key}
               /\ Len(now[last.key]) = Len(old) + 1
               /\ SubSeq(now[last.key], 1, Len(old)) = old
               /\ \A k \in DOMAIN mine \ {last.key} : now[k] = mine[k]
               /\ \A q \in Ids \ {last.recv} : vs[q] = last.pre[q]

\* C9, for every check but Range: unchanged, or one message more under the
\* given key.
CheckAtMostOneButRange ==
    (last.op \notin {"idle", "Append", "Sub", "Merge", "ErrorOrNil", "String", "Range"}) =>
        LET mine == last.pre[last.recv].Errors
            now == vs[last.recv].Errors
            old == IF last.key \in DOMAIN mine THEN mine[last.key] ELSE <<>>
        IN  \/ vs = last.pre
            \/ /\ DOMAIN now = DOMAIN mine \cup {last.key}
               /\ Len(now[last.key]) = Len(old) + 1
               /\ SubSeq(now[last.key], 1, Len(old)) = old
               /\ \A k \in DOMAIN mine \ {last.key} : now[k] = mine[k]
               /\ \A q \in Ids \ {last.recv} : vs[q] = last.pre[q]

\* C10 as stated: with the empty string or the integer zero as value, every
\* check other than Required records nothing, whatever the constraints, and
\* Integer, Boolean, URL, Email and IPv4 return their zero value.
EmptyIsValid ==
    (\/ /\ last.op \in {"Exclude", "Include", "Domain", "URL", "Email", "IPv4", "HexColor",
                        "Len", "Integer", "Boolean", "Date", "Phone"}
        /\ last.args.value = <<>>
     \/ /\ last.op \in {"ExcludeInt64", "IncludeInt64", "Range"}
        /\ last.args.value = 0) =>
        /\ vs = last.pre
        /\ ~last.panic =>
               /\ last.op = "Integer" => last.ret = [t |-> "int", n |-> 0]
               /\ last.op = "Boolean" => last.ret = [t |-> "bool", b |-> FALSE]
               /\ last.op = "URL" => last.ret.u.isNil
               /\ last.op = "Email" => last.ret = [t |-> "Address", s |-> <<>>]
               /\ last.op = "IPv4" => last.ret = [t |-> "IP", kind |-> "empty"]

\* C10, for the checks that return before anything else on the empty
\* string: nothing recorded, no panic, the zero value returned.
EmptyReturnsFirst ==
    (/\ last.op \in {"Domain", "URL", "Email", "IPv4", "HexColor", "Integer", "Boolean", "Phone"}
     /\ last.args.value = <<>>) =>
        /\ vs = last.pre
        /\ ~last.panic
        /\ last.op = "Integer" => last.ret = [t |-> "int", n |-> 0]
        /\ last.op = "Boolean" => last.ret = [t |-> "bool", b |-> FALSE]
        /\ last.op = "URL" => last.ret.u.isNil
        /\ last.op = "Email" => last.ret = [t |-> "Address", s |-> <<>>]
        /\ last.op = "IPv4" => last.ret = [t |-> "IP", kind |-> "empty"]

RequiredSlice ==
    (/\ last.op = "Required"
     /\ ~last.panic
     /\ ~last.pre[last.recv].nilMap
     /\ last.args.value.t \in {"slice", "[]int64"}) =>
        ((vs # last.pre) <=>
            (\A i \in 1..Len(last.args.value.zero) : last.args.value.zero[i]))

\* C12, for the slices that are not []int64: an error exactly when no
\* element is other than zero.
RequiredSliceReflect ==
    (/\ last.op = "Required"
     /\ ~last.panic
     /\ ~last.pre[last.recv].nilMap
     /\ last.args.value.t = "slice") =>
        ((vs # last.pre) <=>
            (\A i \in 1..Len(last.args.value.zero) : last.args.value.zero[i]))

\* C13 as stated: a call of a check with two or more override messages
\* panics, whatever the value, and records nothing.
TooManyPanics ==
    (/\ last.op \notin {"idle", "Append", "Sub", "Merge", "ErrorOrNil", "String"}
     /\ Len(last.args.message) >= 2) =>
        /\ last.panic
        /\ vs = last.pre

\* C13, for the checks that read the override before they look at the
\* value: two or more messages panic and record nothing.
TooManyPanicsFirst ==
    (/\ last.op \in {"Required", "ExcludeInt64", "Exclude", "Len", "Date", "Range"}
     /\ Len(last.args.message) >= 2) =>
        /\ last.panic
        /\ vs = last.pre

\* The types Required has a case for.
RequiredTypes ==
    {"string", "*string", "int", "int64", "uint", "uint64", "bool",
     "Address", "List", "[]int64", "ptr", "slice"}

\* C14: Required called with a value of a type it has no case for panics
\* and leaves every validator as it was: no field error is recorded.
RequiredUnsupported ==
    (/\ last.op = "Required"
     /\ last.args.value.t \notin RequiredTypes) =>
        /\ last.panic
        /\ vs = last.pre

RequiredUnsupportedWitness ==
    /\ last.op = "Required"
    /\ last.args.value.t = "float64"
    /\ last.args.message = <<>>
    /\ ~last.pre[last.recv].nilMap
    /\ last.panic
    /\ vs = last.pre

\* The messages the last call added under its key.
Added ==
    LET old == Get(last.pre[last.recv].Errors, last.key)
        new == Get(vs[last.recv].Errors, last.key)
    IN  SubSeq(new, Len(old) + 1, Len(new))

\* C15 as stated: a failing check called with exactly one override message
\* records that override and never the default wording, whatever the check
\* and whatever the override, the empty string included.
OverrideRecorded ==
    (/\ last.op \notin {"idle", "Append", "Sub", "Merge", "ErrorOrNil", "String"}
     /\ Len(last.args.message) = 1
     /\ vs # last.pre) =>
        \A i \in 1..Len(Added) : Added[i] = last.args.message[1]

\* C15, for an override that is not empty and holds no "%": every failing
\* check records it as written; URL, on an address it cannot parse, records
\* it followed by ": " and the text of the parse error.
OverridePlainRecorded ==
    (/\ last.op \notin {"idle", "Append", "Sub", "Merge", "ErrorOrNil", "String"}
     /\ last.args.message = <<<<"x">>>>
     /\ vs # last.pre) =>
        /\ Added # <<>>
        /\ \A i \in 1..Len(Added) :
               \/ Added[i] = <<"x">>
               \/ (last.op = "URL" /\ HasPrefix(Added[i], <<"x", ":", " ">>))

\* C15, for the empty override: the checks with a default of their own record
\* the empty string, the checks that build their default from the
\* arguments record that default.
OverrideEmptyFallsBack ==
    (/\ last.op \notin {"idle", "Append", "Sub", "Merge", "ErrorOrNil", "String"}
     /\ Len(last.args.message) = 1
     /\ last.args.message[1] = <<>>
     /\ vs # last.pre) =>
        \A i \in 1..Len(Added) :
            (Added[i] = <<>> \/ (last.op = "URL" /\ HasPrefix(Added[i], <<":", " ">>))) <=>
                last.op \in {"Required", "Domain", "URL", "Email", "IPv4", "HexColor",
                             "Integer", "Boolean", "Phone"}

RangeWithin ==
    (last.op = "Range" /\ ~last.panic) =>
        ((vs # last.pre) <=>
            \/ last.args.value < last.args.min
            \/ (last.args.max # 0 /\ last.args.value > last.args.max))

\* C17, with the upper limit the code applies: a max of 0 or below puts no
\* upper limit; a value equal to min, or to a max above 0, passes.
RangeWithinPositive ==
    (last.op = "Range" /\ ~last.panic) =>
        /\ (vs # last.pre) <=>
               \/ last.args.value < last.args.min
               \/ (last.args.max > 0 /\ last.args.value > last.args.max)
        /\ (last.args.value = last.args.min
               /\ (last.args.max > 0 => last.args.value <= last.args.max)) => vs = last.pre
        /\ (last.args.value = last.args.max /\ last.args.value >= last.args.min) =>
               vs = last.pre

\* The entries of the list the value of the last call matches: the value is
\* put in lower case and trimmed, the entry is put in lower case.
Matching ==
    {i \in 1..Len(last.args.list) :
        ToLower(last.args.list[i]) = TrimSpace(ToLower(last.args.value))}

\* The first of the matching entries, as written in the list.
FirstMatching ==
    last.args.list[CHOOSE i \in Matching : \A j \in Matching : i <= j]

\* C18 as stated: Include records an error exactly when its list is not
\* empty and no entry matches the value; Exclude records an error exactly
\* when an entry matches, and its message names the first matching entry as
\* the list writes it.
ListMatching ==
    /\ (last.op = "Include" /\ ~last.panic) =>
           ((vs # last.pre) <=> (last.args.list # <<>> /\ Matching = {}))
    /\ (last.op = "Exclude" /\ ~last.panic) =>
           /\ (vs # last.pre) <=> Matching # {}
           /\ (Matching # {} /\ last.args.message = <<>>) =>
                  Added = << <<"c", "a", "n", "n", "o", "t", " ", "b", "e", " ", "U+2018">>
                               \o FirstMatching \o <<"U+2019">> >>

\* C18, the entry named by Exclude holding no "%".
ListMatchingNoVerb ==
    /\ (last.op = "Include" /\ ~last.panic) =>
           ((vs # last.pre) <=> (last.args.list # <<>> /\ Matching = {}))
    /\ (last.op = "Exclude" /\ ~last.panic) =>
           /\ (vs # last.pre) <=> Matching # {}
           /\ (/\ Matching # {}
               /\ last.args.message = <<>>
               /\ \A i \in 1..Len(FirstMatching) : FirstMatching[i] # "%") =>
                  Added = << <<"c", "a", "n", "n", "o", "t", " ", "b", "e", " ", "U+2018">>
                               \o FirstMatching \o <<"U+2019">> >>

\* Exclude names the entry "A" for the value " a ".
ListMatchingNoVerbWitness ==
    /\ last.op = "Exclude"
    /\ ~last.panic
    /\ last.args.message = <<>>
    /\ last.args.value = <<" ", "A", " ">>
    /\ Added = << <<"c", "a", "n", "n", "o", "t", " ", "b", "e", " ", "U+2018", "A", "U+2019">> >>

\* The value of the last Integer call, trimmed, split into sign and digits.
IntegerText ==
    LET s == TrimSpace(last.args.value)
        signed == s # <<>> /\ s[1] \in {"+", "-"}
        ds == IF signed THEN Tail(s) ELSE s
    IN  [neg |-> signed /\ s[1] = "-",
         ds |-> ds,
         whole |-> ds # <<>> /\ \A i \in 1..Len(ds) : ds[i] \in
                       {"0", "1", "2", "3", "4", "5", "6", "7", "8", "9"}]

\* The number IntegerText writes lies within the int64 range.
IntegerFits ==
    ~DigitsAbove(StripZeros(IntegerText.ds),
                 IF IntegerText.neg THEN MinInt64Digits ELSE MaxInt64Digits)

\* C19 as stated: Integer, given a value that is not empty, returns the
\* number the trimmed value writes and records nothing when that is a whole
\* number within the int64 range; otherwise it records "must be a whole
\* number" and returns 0.
IntegerParses ==
    (last.op = "Integer" /\ ~last.panic /\ last.args.value # <<>>) =>
        IF IntegerText.whole /\ IntegerFits
        THEN /\ vs = last.pre
             /\ last.ret = [t |-> "int",
                            n |-> IF IntegerText.neg THEN 0 - NatValue(IntegerText.ds)
                                  ELSE NatValue(IntegerText.ds)]
        ELSE /\ vs # last.pre
             /\ last.args.message = <<>> =>
                    Added = << <<"m", "u", "s", "t", " ", "b", "e", " ", "a", " ", "w", "h",
                                 "o", "l", "e", " ", "n", "u", "m", "b", "e", "r">> >>
             /\ last.ret = [t |-> "int", n |-> 0]

\* C19, without the numbers beyond the int64 range.
IntegerParsesInRange ==
    (/\ last.op = "Integer"
     /\ ~last.panic
     /\ last.args.value # <<>>
     /\ IntegerText.whole => IntegerFits) =>
        IntegerParses

\* C19, for a number beyond the int64 range: the error is recorded and the
\* nearest int64 is returned, not 0.
IntegerBeyondRange ==
    (/\ last.op = "Integer"
     /\ ~last.panic
     /\ IntegerText.whole
     /\ ~IntegerFits) =>
        /\ vs # last.pre
        /\ last.ret = [t |-> "int", limit |-> IF IntegerText.neg THEN "min" ELSE "max"]

\* The value of the last call is "#" followed by hexadecimal digits alone,
\* of either case.
HashAndHex ==
    /\ last.args.value # <<>>
    /\ last.args.value[1] = "#"
    /\ \A i \in 2..Len(last.args.value) :
           last.args.value[i] \in {"0", "1", "2", "3", "4", "5", "6", "7", "8", "9",
                                   "a", "b", "c", "d", "e", "f", "A", "B", "C", "D", "E", "F"}

\* C20 as stated: HexColor, given a value that is not empty, records nothing
\* exactly when the value is "#" followed by 3 or by 6 hexadecimal digits;
\* every other value records "must be a valid color code".
HexColorDigits ==
    (last.op = "HexColor" /\ ~last.panic /\ last.args.value # <<>>) =>
        /\ (vs = last.pre) <=> (HashAndHex /\ Len(last.args.value) - 1 \in {3, 6})
        /\ (vs # last.pre /\ last.args.message = <<>>) =>
               Added = << <<"m", "u", "s", "t", " ", "b", "e", " ", "a", " ", "v", "a", "l",
                            "i", "d", " ", "c", "o", "l", "o", "r", " ", "c", "o", "d", "e">> >>

\* C20, with the lengths the code accepts: 3, 4, 5 or 6 digits.
HexColorThreeToSix ==
    (last.op = "HexColor" /\ ~last.panic /\ last.args.value # <<>>) =>
        /\ (vs = last.pre) <=> (HashAndHex /\ Len(last.args.value) - 1 \in 3..6)
        /\ (vs # last.pre /\ last.args.message = <<>>) =>
               Added = << <<"m", "u", "s", "t", " ", "b", "e", " ", "a", " ", "v", "a", "l",
                            "i", "d", " ", "c", "o", "l", "o", "r", " ", "c", "o", "d", "e">> >>

\* The value of the last call is two or more labels with one dot between
\* them, each label of 1 to 63 letters, digits and hyphens.
DottedLabels ==
    LET s == last.args.value
        dots == {i \in 1..Len(s) : s[i] = "."}
        letters == {"a", "b", "c", "d", "e", "f", "g", "h", "i", "j", "k", "l", "m",
                    "n", "o", "p", "q", "r", "s", "t", "u", "v", "w", "x", "y", "z",
                    "A", "B", "C", "D", "E", "F", "G", "H", "I", "J", "K", "L", "M",
                    "N", "O", "P", "Q", "R", "S", "T", "U", "V", "W", "X", "Y", "Z",
                    "U+00E9", "U+0E23"}
        digits == {"0", "1", "2", "3", "4", "5", "6", "7", "8", "9"}
    IN  /\ dots # {}
        /\ \A i \in 1..Len(s) : s[i] \in letters \cup digits \cup {"-", "."}
        /\ \A i \in dots \cup {0} :
               \E j \in (i + 1)..(i + 63) :
                   /\ j <= Len(s)
                   /\ \A k \in (i + 1)..j : s[k] # "."
                   /\ j = Len(s) \/ s[j + 1] = "."

\* C21: Domain, given a value that is not empty, records nothing exactly
\* when the whole value is two or more labels separated by single dots, each
\* label 1 to 63 characters that are letters, digits or hyphens; any other
\* value records "must be a valid domain".
DomainLabels ==
    (last.op = "Domain" /\ ~last.panic /\ last.args.value # <<>>) =>
        /\ (vs = last.pre) <=> DottedLabels
        /\ (vs # last.pre /\ last.args.message = <<>>) =>
               Added = << <<"m", "u", "s", "t", " ", "b", "e", " ", "a", " ", "v", "a", "l",
                            "i", "d", " ", "d", "o", "m", "a", "i", "n">> >>

\* A name of one label is rejected.
DomainLabelsWitness ==
    /\ last.op = "Domain"
    /\ ~last.panic
    /\ last.args.value = <<"a">>
    /\ last.args.message = <<>>
    /\ Added = << <<"m", "u", "s", "t", " ", "b", "e", " ", "a", " ", "v", "a", "l",
                    "i", "d", " ", "d", "o", "m", "a", "i", "n">> >>

\* A label of 63 characters passes and one of 64 is rejected.
DomainLabelLimit ==
    (last.op = "Domain" /\ ~last.panic /\ Len(last.args.value) > 63) =>
        ((vs = last.pre) <=> Len(last.args.value) = 65)

\* The URL the value of the last call parses to, parsed again with the scheme
\* "http" when the value names none.
ParsedURL ==
    LET u1 == urlParse(last.args.value)
    IN  IF ~u1.isNil /\ u1.Scheme = <<>>
        THEN urlParse(urlString([u1 EXCEPT !.Scheme = <<"h", "t", "t", "p">>]))
        ELSE u1

\* The host of ParsedURL up to the ":" of its port.
ParsedHost ==
    LET h == ParsedURL.Host
        colons == {i \in 1..Len(h) : h[i] = ":"}
    IN  IF colons = {} THEN h
        ELSE SubSeq(h, 1, (CHOOSE i \in colons : \A j \in colons : j <= i) - 1)

\* C22: URL, given a value that is not empty, returns the parsed URL and
\* records nothing exactly when the value parses (with the scheme "http"
\* when it has none), has a host, and the host without its port is a valid
\* domain; otherwise it records one message that begins with the URL failure
\* text and returns nil.
URLHostIsDomain ==
    (last.op = "URL" /\ ~last.panic /\ last.args.value # <<>>) =>
        IF /\ ~ParsedURL.isNil
           /\ ParsedURL.Host # <<>>
           /\ validDomain(ParsedHost)
        THEN /\ vs = last.pre
             /\ ~last.ret.u.isNil
             /\ last.ret.u = ParsedURL
        ELSE /\ Len(Added) = 1
             /\ last.args.message = <<>> =>
                    HasPrefix(Added[1], <<"m", "u", "s", "t", " ", "b", "e", " ", "a", " ",
                                          "v", "a", "l", "i", "d", " ", "u", "r", "l">>)
             /\ last.ret.u.isNil

\* A URL with a port passes and is returned.
URLHostIsDomainWitness ==
    /\ last.op = "URL"
    /\ ~last.panic
    /\ last.args.value = <<"h", "t", "t", "p", ":", "/", "/", "a", ".", "b", ":", "8", "0">>
    /\ vs = last.pre
    /\ last.ret.u.Host = <<"a", ".", "b", ":", "8", "0">>

(***************************************************************************)
(* Merging in two groupings.  Validators 1, 2 and 3 are A, B and C;        *)
(* validators 4 and 5 start as copies of A and B.  A.Merge(B) and          *)
(* A.Merge(C) run on validator 1, then B.Merge(C) on validator 5 and       *)
(* A.Merge(B) on validators 4 and 5; checks counts the calls made.  A      *)
(* panic ends the run.                                                     *)
(***************************************************************************)
AssocIds == 1..5

AssocInputs ==
    {New, ZeroValidator,
     [New EXCEPT !.Errors = <<"a">> :> <<<<"x">>>>],
     [New EXCEPT !.Errors = <<"a">> :> <<<<"y">>>>],
     [New EXCEPT !.Errors = <<"b">> :> <<<<"x">>, <<"y">>>>],
     [New EXCEPT !.Errors = (<<"a">> :> <<<<"y">>, <<"x">>>>) @@ (<<"b">> :> <<<<"x">>>>)]}

InitAssoc ==
    /\ vs \in [AssocIds -> AssocInputs]
    /\ vs[4] = vs[1]
    /\ vs[5] = vs[2]
    /\ last = Idle
    /\ checks = 0
    /\ threads = <<>>

\* vs[p].Merge(vs[q])
MergeInto(p, q) ==
    /\ ~last.panic
    /\ \E order \in Orders(DOMAIN vs[q].Errors) :
           LET r == Merge(vs[p], vs[q], order)
           IN  /\ vs' = [vs EXCEPT ![p] = r.v]
               /\ last' = [Idle EXCEPT !.op = "Merge", !.panic = r.panic]
    /\ UNCHANGED threads

LeftFirst ==
    /\ checks = 0
    /\ MergeInto(1, 2)
    /\ checks' = 1

LeftSecond ==
    /\ checks = 1
    /\ MergeInto(1, 3)
    /\ checks' = 2

RightFirst ==
    /\ checks = 2
    /\ MergeInto(5, 3)
    /\ checks' = 3

RightSecond ==
    /\ checks = 3
    /\ MergeInto(4, 5)
    /\ checks' = 4

NextAssoc == LeftFirst \/ LeftSecond \/ RightFirst \/ RightSecond

SpecAssoc == InitAssoc /\ [][NextAssoc]_vars

\* C23: when the four merges have returned, merging B and then C into A has
\* left the same list under every key as merging C into B and the result
\* into A; and {a:[x]} then {a:[y]} merged into a new validator give
\* {a:[x, y]}.
MergeAssociative ==
    /\ (checks = 4 /\ ~last.panic) => vs[1].Errors = vs[4].Errors
    /\ (/\ checks >= 2
        /\ ~(checks = 2 /\ last.panic)
        /\ vs[4] = New
        /\ vs[2].Errors = <<"a">> :> <<<<"x">>>>
        /\ vs[3].Errors = <<"a">> :> <<<<"y">>>>) =>
           vs[1].Errors = <<"a">> :> <<<<"x">>, <<"y">>>>

\* Three validators with messages under the same key, merged both ways.
MergeAssociativeWitness ==
    /\ checks = 4
    /\ ~last.panic
    /\ vs[2].Errors = <<"a">> :> <<<<"x">>>>
    /\ vs[3].Errors = (<<"a">> :> <<<<"y">>, <<"x">>>>) @@ (<<"b">> :> <<<<"x">>>>)
    /\ vs[1].Errors = (<<"a">> :> <<<<"y">>, <<"x">>, <<"y">>, <<"x">>>>)
                          @@ (<<"b">> :> <<<<"x">>>>)
    /\ vs[4].Errors = vs[1].Errors

\* C24 as stated: Append, Merge, ErrorOrNil (with its HasErrors) and String
\* return normally on every receiver and with every argument.
AggregateTotal ==
    last.op \in {"Append", "Merge", "Sub", "ErrorOrNil", "String"} => ~last.panic

\* C24, for a receiver whose map is made, as New() makes it: Append, Merge,
\* ErrorOrNil and String return normally, and a call that panicked was made
\* on the zero value Validator{} and has changed nothing.
AggregateTotalNew ==
    /\ (/\ last.op \in {"Append", "Merge", "Sub", "ErrorOrNil", "String"}
        /\ ~last.pre[last.recv].nilMap
        /\ last.op = "Sub" => last.args.err # PtrErr(0)) =>
           ~last.panic
    /\ (last.op \in {"Append", "Merge", "Sub", "ErrorOrNil", "String"} /\ last.panic) =>
           vs = last.pre

\* C24, for Sub given a nil *Validator as its error: the call panics on any
\* receiver.
SubNilPointer ==
    (last.op = "Sub" /\ last.args.err = PtrErr(0)) => last.panic

\* The MIME type of each format name IsImage knows.
FormatMIME ==
    [f \in {"jpeg", "jpg", "png", "gif"} |->
        CASE f = "png" -> <<"i", "m", "a", "g", "e", "/", "p", "n", "g">>
          [] f = "gif" -> <<"i", "m", "a", "g", "e", "/", "g", "i", "f">>
          [] OTHER -> <<"i", "m", "a", "g", "e", "/", "j", "p", "e", "g">>]

\* The format lists written as documented, with a space after each comma.
DocumentedFormats ==
    [jp |-> <<"j", "p", "e", "g", ",", " ", "p", "n", "g">>,
     jpg |-> <<"j", "p", "e", "g", ",", " ", "p", "n", "g", ",", " ", "g", "i", "f">>]

\* The formats the formats argument of the last call lists.
ListedFormats ==
    CASE last.args.formats = DocumentedFormats.jp -> {"jpeg", "png"}
      [] last.args.formats = DocumentedFormats.jpg -> {"jpeg", "png", "gif"}
      [] OTHER -> {}

\* C25 as stated: IsImage called with the formats "jpeg, png" or
\* "jpeg, png, gif" returns true and records nothing for a file whose
\* Content-Type is the MIME type of one of the listed formats, and records
\* one error and returns false for a file that matches none.
IsImageFormats ==
    (last.op = "IsImage" /\ ~last.panic /\ ListedFormats # {}) =>
        IF \E f \in ListedFormats, i \in 1..Len(last.args.fileHeader.types) :
               last.args.fileHeader.types[i] = FormatMIME[f]
        THEN vs = last.pre /\ last.ret = [t |-> "bool", b |-> TRUE]
        ELSE Len(Added) = 1 /\ last.ret = [t |-> "bool", b |-> FALSE]

\* C25, for the first format of the list, the one with no space before it,
\* and for the formats after it, which never match.
IsImageFirstFormat ==
    (last.op = "IsImage" /\ ~last.panic /\ ListedFormats # {}) =>
        IF \E i \in 1..Len(last.args.fileHeader.types) :
               last.args.fileHeader.types[i] = FormatMIME["jpeg"]
        THEN vs = last.pre /\ last.ret = [t |-> "bool", b |-> TRUE]
        ELSE Len(Added) = 1 /\ last.ret = [t |-> "bool", b |-> FALSE]

\* C25, for a list without spaces and for a single format or none: a file
\* of a listed format passes.
IsImageNoSpace ==
    (/\ last.op = "IsImage"
     /\ ~last.panic
     /\ last.args.fileHeader.types = <<FormatMIME["png"]>>) =>
        ((vs = last.pre) <=>
            last.args.formats \in {<<>>, <<"P", "N", "G">>,
                                   <<"p", "n", "g", ",", "j", "p", "e", "g">>})

\* The file of the last call lies within the limits that are in force: a
\* size limit below 0 and a nil dimension are not in force.
WithinLimits ==
    LET f == last.args.fileHeader
        min == last.args.min
        max == last.args.max
    IN  IF last.op = "FileSize"
        THEN /\ min >= 0 => f.Size >= min
             /\ max >= 0 => f.Size <= max
        ELSE /\ ~min.isNil => (f.Width >= min.Width /\ f.Height >= min.Height)
             /\ ~max.isNil => (f.Width <= max.Width /\ f.Height <= max.Height)

\* The last call is a FileSize call, or an ImageDimensions call on a file
\* that is an image and decodes, that returned.
FileCallReturned ==
    /\ last.op \in {"FileSize", "ImageDimensions"}
    /\ ~last.panic
    /\ last.op = "ImageDimensions" =>
           /\ last.args.fileHeader.isImage
           /\ \E i \in 1..Len(last.args.fileHeader.types) :
                  last.args.fileHeader.types[i] \in {ImageJPEG, ImagePNG, ImageGIF}

\* C26 as stated: FileSize and ImageDimensions, with an override message or
\* without, record nothing for a file within the limits and one message,
\* the override if there is one, for a file outside them.
FilesUniformRule ==
    FileCallReturned =>
        IF WithinLimits THEN vs = last.pre
        ELSE /\ Len(Added) = 1
             /\ last.args.message = <<<<"x">>>> => Added = <<<<"x">>>>

\* C26, without an override: nothing for a file within the limits, one
\* message for a file outside them.
FilesUniformNoOverride ==
    (FileCallReturned /\ last.args.message \in {<<>>, <<<<>>>>}) =>
        IF WithinLimits THEN vs = last.pre
        ELSE /\ Len(Added) = 1
             /\ (last.op = "FileSize" /\ last.args.min = 1025 /\ last.args.max < 0) =>
                    Added[1] = <<"f", "i", "l", "e", " ", "s", "i", "z", "e", " ", "c", "a", "n", "n", "o", "t", " ", "b", "e", " ", "l", "e", "s", "s", " ", "t", "h", "a", "n", " ", "'", "2", ".", "0", "'", "K", "B">>
             /\ (last.op = "FileSize" /\ last.args.fileHeader.Size = 0 /\ last.args.min = 1025) =>
                    Added[1] = <<"f", "i", "l", "e", " ", "s", "i", "z", "e", " ", "c", "a", "n", "n", "o", "t", " ", "b", "e", " ", "l", "e", "s", "s", " ", "t", "h", "a", "n", " ", "'", "2", ".", "0", "'", "K", "B">>

\* C26, with an override that is not empty: the override is recorded once
\* whether the file is within the limits or not.
FilesOverrideAlways ==
    (/\ FileCallReturned
     /\ Len(last.args.message) = 1
     /\ last.args.message[1] # <<>>
     /\ last.op = "FileSize" => (last.args.min >= 0 \/ last.args.max >= 0)) =>
        Len(Added) = 1

\* The text t stands in the text s, character for character.
Within(t, s) ==
    \E i \in 0..(Len(s) - Len(t)) : SubSeq(s, i + 1, i + Len(t)) = t

\* C27 as stated, for the checks: a failing check called with the override t
\* records a message that holds t, and Exclude without an override records
\* a message that holds the matched entry, whatever characters they are
\* made of.
TextVerbatim ==
    /\ (/\ last.op \notin {"idle", "Append", "Sub", "Merge", "ErrorOrNil", "String"}
        /\ Len(last.args.message) = 1
        /\ last.args.message[1] # <<>>
        /\ vs # last.pre) =>
           \A i \in 1..Len(Added) : Within(last.args.message[1], Added[i])
    /\ (/\ last.op = "Exclude"
        /\ ~last.panic
        /\ last.args.message = <<>>
        /\ Matching # {}) =>
           \A i \in 1..Len(Added) : Within(FirstMatching, Added[i])

\* C27, what is recorded for the text "%d": the override of a failing check
\* becomes "%!d(MISSING)", the entry named by Exclude likewise.
TextFormatted ==
    /\ (/\ last.op \notin {"idle", "Append", "Sub", "Merge", "ErrorOrNil", "String", "URL",
                          "ImageDimensions"}
        /\ last.args.message = <<<<"%", "d">>>>
        /\ vs # last.pre) =>
           \A i \in 1..Len(Added) :
               Added[i] = <<"%", "!", "d", "(", "M", "I", "S", "S", "I", "N", "G", ")">>
    /\ (/\ last.op = "Exclude"
        /\ ~last.panic
        /\ last.args.message = <<>>
        /\ Matching # {}
        /\ FirstMatching = <<"%", "d">>) =>
           Added = << <<"c", "a", "n", "n", "o", "t", " ", "b", "e", " ", "U+2018",
                        "%", "!", "d", "(", "M", "I", "S", "S", "I", "N", "G", ")", "U+2019">> >>

(***************************************************************************)
(* Two calls in both orders.  Validators 1 and 2 start equal.  A first     *)
(* and a second call, each an Append or a check, run on validator 1, then  *)
(* the second and the first run on validator 2; last.args keeps the calls  *)
(* made and checks counts them.  A panic ends the run.                     *)
(***************************************************************************)
OrderCalls ==
    {[op |-> "Append", key |-> k, s |-> t, n |-> 0, min |-> 0, max |-> 0] :
         k \in Fields, t \in {<<"x">>, <<"y">>}}
    \cup {[op |-> "Required", key |-> k, s |-> <<>>, n |-> 0, min |-> 0, max |-> 0] :
         k \in Fields}
    \cup {[op |-> "Domain", key |-> k, s |-> t, n |-> 0, min |-> 0, max |-> 0] :
         k \in Fields, t \in {<<"a">>, <<"a", ".", "b">>}}
    \cup {[op |-> "Len", key |-> k, s |-> <<"x">>, n |-> 0, min |-> 3, max |-> 0] :
         k \in Fields}
    \cup {[op |-> "Range", key |-> k, s |-> <<>>, n |-> 2, min |-> 3, max |-> 1] :
         k \in Fields}

\* The call made on the validator v.
Apply(v, call) ==
    CASE call.op = "Append" -> ValidatorAppend(v, call.key, call.s, <<>>)
      [] call.op = "Required" -> Required(v, call.key, [t |-> "string", s |-> call.s], <<>>)
      [] call.op = "Domain" -> Domain(v, call.key, call.s, <<>>)
      [] call.op = "Len" -> ValidatorLen(v, call.key, call.s, call.min, call.max, <<>>)
      [] call.op = "Range" -> Range(v, call.key, call.n, call.min, call.max, <<>>)

InitOrder ==
    /\ vs \in [Ids -> Receivers]
    /\ vs[1] = vs[2]
    /\ last = Idle
    /\ checks = 0
    /\ threads = <<>>

\* The call made on validator p and added to the calls kept in last.
CallOn(p, call, kept) ==
    /\ ~last.panic
    /\ vs' = [vs EXCEPT ![p] = Apply(vs[p], call).v]
    /\ last' = [Idle EXCEPT !.op = "call", !.args = kept,
                            !.panic = Apply(vs[p], call).panic]
    /\ UNCHANGED threads

FirstCall ==
    /\ checks = 0
    /\ \E call \in OrderCalls : CallOn(1, call, <<call>>)
    /\ checks' = 1

SecondCall ==
    /\ checks = 1
    /\ \E call \in OrderCalls : CallOn(1, call, last.args \o <<call>>)
    /\ checks' = 2

SecondCallFirst ==
    /\ checks = 2
    /\ CallOn(2, last.args[2], last.args)
    /\ checks' = 3

FirstCallSecond ==
    /\ checks = 3
    /\ CallOn(2, last.args[1], last.args)
    /\ checks' = 4

NextOrder == FirstCall \/ SecondCall \/ SecondCallFirst \/ FirstCallSecond

SpecOrder == InitOrder /\ [][NextOrder]_vars

\* The messages a call adds under its key to the validator v.
AddedBy(call, v) ==
    SubSeq(Get(Apply(v, call).v.Errors, call.key),
           Len(Get(v.Errors, call.key)) + 1,
           Len(Get(Apply(v, call).v.Errors, call.key)))

\* C28: two calls on different keys leave the same mapping in either order;
\* two calls on the same key leave, after what the key held, the messages
\* of the first call and then those of the second.
OrderAcrossFields ==
    /\ (/\ checks = 4
        /\ ~last.panic
        /\ last.args[1].key # last.args[2].key) =>
           vs[1].Errors = vs[2].Errors
    /\ (/\ checks = 2
        /\ ~last.panic
        /\ last.args[1].key = last.args[2].key) =>
           Get(vs[1].Errors, last.args[1].key) =
               Get(vs[2].Errors, last.args[1].key)
                   \o AddedBy(last.args[1], vs[2]) \o AddedBy(last.args[2], vs[2])

\* A Range call that adds two messages under "a" and an Append under "b",
\* run in both orders.
OrderAcrossFieldsWitness ==
    /\ checks = 4
    /\ ~last.panic
    /\ last.args[1].op = "Range"
    /\ last.args[1].key = <<"a">>
    /\ last.args[2].op = "Append"
    /\ last.args[2].key = <<"b">>
    /\ Len(Get(vs[2].Errors, <<"a">>)) = 2
    /\ Len(Get(vs[2].Errors, <<"b">>)) = 1
    /\ vs[1] = vs[2]

\* Two calls on one key: the message of the first stands before that of
\* the second.
OrderWithinField ==
    (/\ checks = 2
     /\ ~last.panic
     /\ last.args[1] = [op |-> "Append", key |-> <<"a">>, s |-> <<"y">>, n |-> 0,
                        min |-> 0, max |-> 0]
     /\ last.args[2] = [op |-> "Required", key |-> <<"a">>, s |-> <<>>, n |-> 0,
                        min |-> 0, max |-> 0]
     /\ vs[2] = New) =>
        vs[1].Errors = <<"a">> :> << <<"y">>,
                                    <<"m", "u", "s", "t", " ", "b", "e", " ", "s", "e", "t">> >>

(***************************************************************************)
(* Two goroutines that each call Append once on validator 1, with no lock. *)
(* v.Errors[key] = append(v.Errors[key], ...) is a map read, then a map    *)
(* write of the list read with the message added.  threads holds for each  *)
(* goroutine where it stands, the key, the list it read and whether        *)
(* another goroutine was inside Append when it read.  Validator 2 is left  *)
(* as validator 1 started.  Append called while another call is inside     *)
(* Append is a data race: the write may land, or the runtime may stop the  *)
(* program with "concurrent map writes".                                   *)
(***************************************************************************)
Goroutines == {1, 2}

GoroutineText(t) == IF t = 1 THEN <<"x">> ELSE <<"y">>

InitRace ==
    /\ vs \in [Ids -> Receivers]
    /\ vs[2] = vs[1]
    /\ last = Idle
    /\ checks = 0
    /\ threads = [t \in Goroutines |->
                     [pc |-> "start", key |-> <<>>, tmp |-> <<>>, raced |-> FALSE]]

Raced == \E t \in Goroutines : threads[t].raced

ReadEntry(t) ==
    /\ threads[t].pc = "start"
    /\ ~last.panic
    /\ \E key \in Fields :
           threads' = [threads EXCEPT ![t] =
                          [pc |-> "read", key |-> key, tmp |-> Get(vs[1].Errors, key),
                           raced |-> \E u \in Goroutines \ {t} : threads[u].pc = "read"]]
    /\ UNCHANGED <<vs, last, checks>>

WriteEntry(t) ==
    /\ threads[t].pc = "read"
    /\ ~last.panic
    /\ IF vs[1].nilMap
       THEN /\ last' = [Idle EXCEPT !.op = "Append", !.panic = TRUE]
            /\ UNCHANGED <<vs, checks, threads>>
       ELSE /\ vs' = [vs EXCEPT ![1].Errors =
                          Put(@, threads[t].key, threads[t].tmp \o <<GoroutineText(t)>>)]
            /\ threads' = [threads EXCEPT ![t].pc = "done"]
            /\ checks' = checks + 1
            /\ last' = [Idle EXCEPT !.op = "Append"]

RuntimeFatal(t) ==
    /\ threads[t].pc = "read"
    /\ ~last.panic
    /\ Raced
    /\ ~vs[1].nilMap
    /\ last' = [Idle EXCEPT !.op = "fatal", !.panic = TRUE]
    /\ UNCHANGED <<vs, checks, threads>>

NextRace ==
    \E t \in Goroutines : ReadEntry(t) \/ WriteEntry(t) \/ RuntimeFatal(t)

SpecRace == InitRace /\ [][NextRace]_vars

\* C29: when the two Append calls did not overlap, every call that has
\* returned has its message in the aggregate: under each key the list has
\* grown by one message for each call made on that key, and holds it; with
\* or without overlap no message is there that was not appended.
SerializedKeepsAll ==
    /\ ~Raced =>
           \A k \in Fields :
               LET done == {t \in Goroutines : threads[t].pc = "done" /\ threads[t].key = k}
               IN  /\ Len(Get(vs[1].Errors, k)) = Len(Get(vs[2].Errors, k)) + Cardinality(done)
                   /\ \A t \in done :
                          \E i \in 1..Len(Get(vs[1].Errors, k)) :
                              /\ i > Len(Get(vs[2].Errors, k))
                              /\ vs[1].Errors[k][i] = GoroutineText(t)
    /\ TotalMsgs(vs[1]) <= TotalMsgs(vs[2]) + checks

\* Both calls have returned after overlapping and one message is lost.
SerializedKeepsAllWitness ==
    /\ \A t \in Goroutines : threads[t].pc = "done" /\ threads[t].key = <<"a">>
    /\ ~last.panic
    /\ Raced
    /\ checks = 2
    /\ vs[2] = New
    /\ Len(Get(vs[1].Errors, <<"a">>)) = 1

\* Both calls have returned, one after the other, and both messages are
\* there.
SerializedWitness ==
    /\ \A t \in Goroutines : threads[t].pc = "done" /\ threads[t].key = <<"a">>
    /\ ~Raced
    /\ vs[2] = New
    /\ vs[1].Errors = <<"a">> :> << <<"y">>, <<"x">> >>

\* The runtime has stopped the program on the concurrent map write.
RaceFatalWitness ==
    /\ last.op = "fatal"
    /\ last.panic
    /\ Raced

\* One step keeps, for aggregate i, every key and every recorded message
\* where it was.
KeepsRecorded(i) ==
    \A k \in DOMAIN vs[i].Errors :
        /\ k \in DOMAIN vs'[i].Errors
        /\ HasPrefix(vs'[i].Errors[k], vs[i].Errors[k])

AppendOnlyStep ==
    \A i \in Ids : KeepsRecorded(i) /\ (HasErrors(vs[i]) => HasErrors(vs'[i]))

HasErrorsIffRecorded ==
    \A i \in Ids : HasErrors(vs[i]) <=> TotalMsgs(vs[i]) > 0

AppendOnlyRecorded ==
    (last.op \in {"Append", "Merge", "Sub"} /\ ~last.panic) =>
        \A k \in DOMAIN last.pre[last.recv].Errors :
            /\ k \in DOMAIN vs[last.recv].Errors
            /\ HasPrefix(vs[last.recv].Errors[k], last.pre[last.recv].Errors[k])

\* Merge has added a list behind a list of two messages.
AppendOnlyRecordedWitness ==
    /\ last.op = "Merge"
    /\ \E k \in DOMAIN last.pre[last.recv].Errors :
           /\ Len(last.pre[last.recv].Errors[k]) = 2
           /\ Len(vs[last.recv].Errors[k]) > 2

====
